---- MODULE Spec2Model ----
(***************************************************************************)
(* Model of the FreeImageRe plugin registry and load/save dispatcher       *)
(* (Source/FreeImage/Plugin.cpp) with the RAW plugin's capability table    *)
(* (Source/Plugins/PluginRAW.cpp).                                         *)
(*                                                                         *)
(* Representation.                                                         *)
(*  - A C string is a TLA+ string; Chars gives its character codes, which  *)
(*    is what the string routines (FreeImage_stricmp, strrchr, strtok) work *)
(*    on.  NULLSTR is the null char pointer.                               *)
(*  - A capability table (struct Plugin) is a record.  A string hook is    *)
(*    NOPROC when the function pointer is null, otherwise the value the    *)
(*    hook returns (NULLSTR when it returns a null pointer).  The session  *)
(*    and operation hooks are TRUE when the function pointer is set; what  *)
(*    they return depends on the stream and is an input of the call.       *)
(*  - FIBOOL is BOOLEAN; void* session data and FIBITMAP* are integers,    *)
(*    0 being the null pointer.                                            *)
(*  - Memory allocation is assumed to succeed (new(std::nothrow) and       *)
(*    std::make_unique do not fail).                                       *)
(*  - m_description and m_regexpr are stored by AddNode and only read by   *)
(*    FreeImage_GetFIFDescription / FreeImage_GetFIFRegExpr; they are      *)
(*    left out.                                                            *)
(***************************************************************************)
EXTENDS Integers, Sequences, FiniteSets, TLC

VARIABLES
    s_plugins,                  \* static std::unique_ptr<PluginList> s_plugins
    s_plugin_reference_count,   \* static int s_plugin_reference_count
    crashed,                    \* the process died on a null dereference
    call,                       \* the last API call: its arguments and result
    calls_made,                 \* the hooks and lookups that call made, in order
    handle_pos,                 \* read position of the stream of the last call
    constructions,              \* history: whether the catalog was constructed
                                \* "never", "once" or "again"
    libraries,                  \* Windows build: libraries[h] is the number of
                                \* FreeLibrary calls on the module handle h that
                                \* LoadLibrary returned
    memory,                     \* the caller's storage of uint32_t counters that
                                \* the histogram pointers of the last call point
                                \* into
    outVal,                     \* the caller's two variables that outMinVal and
                                \* outMaxVal point to
    made,                       \* the last call of the colour toolkit
                                \* (FreeImage_MakeHistogram, FreeImage_AdjustCurve,
                                \* ...): its arguments and its result
    image,                      \* the bitmap the last colour adjustment was made
                                \* on, as the call left it
    LUT                         \* the caller's table of 256 bytes that
                                \* FreeImage_GetAdjustColorsLookupTable filled

vars == <<s_plugins, s_plugin_reference_count, crashed, call, calls_made, handle_pos,
          constructions, libraries, memory, outVal, made, image, LUT>>

-----------------------------------------------------------------------------
(* Bounds of the exploration *)

\* FreeImage_Initialise is explored up to this reference count
MaxRef == 2
\* FreeImage_DeInitialise is explored down to minus this reference count
MaxUnder == 1
\* plugins registered on top of the built-in ones
MaxExtra == 2
\* Windows build: modules LoadLibrary returns over a run
MaxModules == 2
\* Windows build: plugin files (*.fip) FreeImage_Initialise finds
MaxFound == 1

-----------------------------------------------------------------------------
(* Pointers and sentinels *)

NULLSTR == "<nullptr>"          \* (const char *)nullptr
NOPROC == "<no proc>"           \* a null function pointer in struct Plugin
NULLPROC == "<null init>"       \* a null FI_InitProc
FIF_UNKNOWN == -1               \* FREE_IMAGE_FORMAT FIF_UNKNOWN

-----------------------------------------------------------------------------
(* Strings *)

Chars(s) ==
    CASE s = "" -> <<>>
      [] s = "3fr,arw,bay,bmq,cap,cine,cr2,crw,cs1,dc2,dcr,drf,dsc,dng,erf,fff,ia,iiq,k25,kc2,kdc,mdc,mef,mos,mrw,nef,nrw,orf,pef,ptx,pxn,qtk,raf,raw,rdc,rw2,rwl,rwz,sr2,srf,srw,sti,x3f" -> <<51, 102, 114, 44, 97, 114, 119, 44, 98, 97, 121, 44, 98, 109, 113, 44, 99, 97, 112, 44, 99, 105, 110, 101, 44, 99, 114, 50, 44, 99, 114, 119, 44, 99, 115, 49, 44, 100, 99, 50, 44, 100, 99, 114, 44, 100, 114, 102, 44, 100, 115, 99, 44, 100, 110, 103, 44, 101, 114, 102, 44, 102, 102, 102, 44, 105, 97, 44, 105, 105, 113, 44, 107, 50, 53, 44, 107, 99, 50, 44, 107, 100, 99, 44, 109, 100, 99, 44, 109, 101, 102, 44, 109, 111, 115, 44, 109, 114, 119, 44, 110, 101, 102, 44, 110, 114, 119, 44, 111, 114, 102, 44, 112, 101, 102, 44, 112, 116, 120, 44, 112, 120, 110, 44, 113, 116, 107, 44, 114, 97, 102, 44, 114, 97, 119, 44, 114, 100, 99, 44, 114, 119, 50, 44, 114, 119, 108, 44, 114, 119, 122, 44, 115, 114, 50, 44, 115, 114, 102, 44, 115, 114, 119, 44, 115, 116, 105, 44, 120, 51, 102>>
      [] s = "BMP" -> <<66, 77, 80>>
      [] s = "CUT" -> <<67, 85, 84>>
      [] s = "DDS" -> <<68, 68, 83>>
      [] s = "EXR" -> <<69, 88, 82>>
      [] s = "G3" -> <<71, 51>>
      [] s = "GIF" -> <<71, 73, 70>>
      [] s = "HDR" -> <<72, 68, 82>>
      [] s = "ICO" -> <<73, 67, 79>>
      [] s = "IFF" -> <<73, 70, 70>>
      [] s = "J2K" -> <<74, 50, 75>>
      [] s = "JNG" -> <<74, 78, 71>>
      [] s = "JP2" -> <<74, 80, 50>>
      [] s = "JPEG" -> <<74, 80, 69, 71>>
      [] s = "JXR" -> <<74, 88, 82>>
      [] s = "KOALA" -> <<75, 79, 65, 76, 65>>
      [] s = "MNG" -> <<77, 78, 71>>
      [] s = "PBM" -> <<80, 66, 77>>
      [] s = "PBMRAW" -> <<80, 66, 77, 82, 65, 87>>
      [] s = "PCD" -> <<80, 67, 68>>
      [] s = "PCX" -> <<80, 67, 88>>
      [] s = "PFM" -> <<80, 70, 77>>
      [] s = "PGM" -> <<80, 71, 77>>
      [] s = "PGMRAW" -> <<80, 71, 77, 82, 65, 87>>
      [] s = "PICT" -> <<80, 73, 67, 84>>
      [] s = "PNG" -> <<80, 78, 71>>
      [] s = "PNM" -> <<80, 78, 77>>
      [] s = "PPM" -> <<80, 80, 77>>
      [] s = "PPMRAW" -> <<80, 80, 77, 82, 65, 87>>
      [] s = "PSD" -> <<80, 83, 68>>
      [] s = "RAS" -> <<82, 65, 83>>
      [] s = "RAW" -> <<82, 65, 87>>
      [] s = "Raw" -> <<82, 97, 119>>
      [] s = "SGI" -> <<83, 71, 73>>
      [] s = "TARGA" -> <<84, 65, 82, 71, 65>>
      [] s = "TIFF" -> <<84, 73, 70, 70>>
      [] s = "WBMP" -> <<87, 66, 77, 80>>
      [] s = "WEBP" -> <<87, 69, 66, 80>>
      [] s = "XA" -> <<88, 65>>
      [] s = "XB" -> <<88, 66>>
      [] s = "XBM" -> <<88, 66, 77>>
      [] s = "XPM" -> <<88, 80, 77>>
      [] s = "a.RAW" -> <<97, 46, 82, 65, 87>>
      [] s = "a.b.pbm" -> <<97, 46, 98, 46, 112, 98, 109>>
      [] s = "a.raw" -> <<97, 46, 114, 97, 119>>
      [] s = "bmp" -> <<98, 109, 112>>
      [] s = "cut" -> <<99, 117, 116>>
      [] s = "dds" -> <<100, 100, 115>>
      [] s = "exr" -> <<101, 120, 114>>
      [] s = "f.XB" -> <<102, 46, 88, 66>>
      [] s = "g3" -> <<103, 51>>
      [] s = "gif" -> <<103, 105, 102>>
      [] s = "hdr" -> <<104, 100, 114>>
      [] s = "ico" -> <<105, 99, 111>>
      [] s = "iff" -> <<105, 102, 102>>
      [] s = "j2k" -> <<106, 50, 107>>
      [] s = "jng" -> <<106, 110, 103>>
      [] s = "jp2" -> <<106, 112, 50>>
      [] s = "jpeg" -> <<106, 112, 101, 103>>
      [] s = "jpg,jif,jpeg,jpe" -> <<106, 112, 103, 44, 106, 105, 102, 44, 106, 112, 101, 103, 44, 106, 112, 101>>
      [] s = "jxr" -> <<106, 120, 114>>
      [] s = "koala" -> <<107, 111, 97, 108, 97>>
      [] s = "mng" -> <<109, 110, 103>>
      [] s = "noext" -> <<110, 111, 101, 120, 116>>
      [] s = "nope" -> <<110, 111, 112, 101>>
      [] s = "pbm" -> <<112, 98, 109>>
      [] s = "pcd" -> <<112, 99, 100>>
      [] s = "pcx" -> <<112, 99, 120>>
      [] s = "pfm" -> <<112, 102, 109>>
      [] s = "pgm" -> <<112, 103, 109>>
      [] s = "photo.JPG" -> <<112, 104, 111, 116, 111, 46, 74, 80, 71>>
      [] s = "photo.jpg" -> <<112, 104, 111, 116, 111, 46, 106, 112, 103>>
      [] s = "pict" -> <<112, 105, 99, 116>>
      [] s = "png" -> <<112, 110, 103>>
      [] s = "pnm" -> <<112, 110, 109>>
      [] s = "ppm" -> <<112, 112, 109>>
      [] s = "psd" -> <<112, 115, 100>>
      [] s = "ras" -> <<114, 97, 115>>
      [] s = "raw" -> <<114, 97, 119>>
      [] s = "sgi" -> <<115, 103, 105>>
      [] s = "targa" -> <<116, 97, 114, 103, 97>>
      [] s = "tif,tiff" -> <<116, 105, 102, 44, 116, 105, 102, 102>>
      [] s = "tiff." -> <<116, 105, 102, 102, 46>>
      [] s = "wbmp" -> <<119, 98, 109, 112>>
      [] s = "webp" -> <<119, 101, 98, 112>>
      [] s = "x.xaa" -> <<120, 46, 120, 97, 97>>
      [] s = "xa" -> <<120, 97>>
      [] s = "xa,xaa" -> <<120, 97, 44, 120, 97, 97>>
      [] s = "xb" -> <<120, 98>>
      [] s = "xbm" -> <<120, 98, 109>>
      [] s = "xpm" -> <<120, 112, 109>>

\* tolower leaving every character as it is
tolower_Identity(c) == c

tolower(c) == IF c >= 65 /\ c <= 90 THEN c + 32 ELSE c

\* s[i] of a NUL-terminated string (1-based): 0 past the end
CharAt(s, i) == IF i <= Len(s) THEN s[i] ELSE 0

RECURSIVE stricmp_loop(_, _, _)
stricmp_loop(s1, s2, i) ==
    LET c1 == tolower(CharAt(s1, i))
        c2 == tolower(CharAt(s2, i))
    IN  IF c1 # 0 /\ c1 = c2 THEN stricmp_loop(s1, s2, i + 1) ELSE c1 - c2

FreeImage_stricmp(s1, s2) == stricmp_loop(s1, s2, 1)

-----------------------------------------------------------------------------
(* Capability tables (struct Plugin) *)

Plugin(format, extension, mime, open, close, load, save, validate) ==
    [format_proc |-> format, extension_proc |-> extension, mime_proc |-> mime,
     open_proc |-> open, close_proc |-> close,
     load_proc |-> load, save_proc |-> save, validate_proc |-> validate]

\* std::make_unique<Plugin>(): every function pointer null
EmptyPlugin == Plugin(NOPROC, NOPROC, NOPROC, FALSE, FALSE, FALSE, FALSE, FALSE)

\* The RAW plugin's extension list
raw_extensions ==
    "3fr,arw,bay,bmq,cap,cine,cr2,crw,cs1,dc2,dcr,drf,dsc,dng,erf,fff,ia,iiq,k25,kc2,kdc,mdc,mef,mos,mrw,nef,nrw,orf,pef,ptx,pxn,qtk,raf,raw,rdc,rw2,rwl,rwz,sr2,srf,srw,sti,x3f"

\* InitRAW: no open, close or save operation
InitRAW ==
    Plugin("RAW", raw_extensions, "image/x-dcraw", FALSE, FALSE, TRUE, FALSE, TRUE)

\* The other built-in plugins: every string hook set, load, save and validate
\* present, no session hooks.  name is the format name the plugin reports.
BuiltinExtension(name) ==
    CASE name = "BMP" -> "bmp" [] name = "ICO" -> "ico"
      [] name = "JPEG" -> "jpg,jif,jpeg,jpe" [] name = "JNG" -> "jng"
      [] name = "KOALA" -> "koala" [] name = "IFF" -> "iff"
      [] name = "MNG" -> "mng" [] name = "PNM" -> "pnm"
      [] name = "PCD" -> "pcd" [] name = "PCX" -> "pcx"
      [] name = "PNG" -> "png" [] name = "RAS" -> "ras"
      [] name = "TARGA" -> "targa" [] name = "TIFF" -> "tif,tiff"
      [] name = "WBMP" -> "wbmp" [] name = "PSD" -> "psd"
      [] name = "CUT" -> "cut" [] name = "XBM" -> "xbm"
      [] name = "XPM" -> "xpm" [] name = "DDS" -> "dds"
      [] name = "GIF" -> "gif" [] name = "HDR" -> "hdr"
      [] name = "G3" -> "g3" [] name = "SGI" -> "sgi"
      [] name = "EXR" -> "exr" [] name = "J2K" -> "j2k"
      [] name = "JP2" -> "jp2" [] name = "PFM" -> "pfm"
      [] name = "PICT" -> "pict" [] name = "WEBP" -> "webp"
      [] name = "JXR" -> "jxr"

InitBuiltin(name) ==
    Plugin(name, BuiltinExtension(name), "image/x-builtin", FALSE, FALSE, TRUE, TRUE, TRUE)

\* Plugins an application registers through FreeImage_RegisterLocalPlugin.
\*   InitFull     sets every hook, reports format "XA"
\*   InitNoName   sets the session hooks open and close alone (no format-name
\*                hook, no load, no save)
\*   InitNullName sets a format-name hook that returns a null pointer
\*   InitThrows   throws out of the setup entry point
InitFull == Plugin("XA", "xa,xaa", "image/x-xa", TRUE, TRUE, TRUE, TRUE, TRUE)
InitNoName == [EmptyPlugin EXCEPT !.open_proc = TRUE, !.close_proc = TRUE]
InitNullName == Plugin(NULLSTR, NOPROC, NOPROC, FALSE, FALSE, TRUE, TRUE, FALSE)

\* Whether the setup entry point init_proc throws
InitThrowsException(init_proc) == init_proc = "InitThrows"

\* The table init_proc(plugin, id) fills in
InitProc(init_proc) ==
    CASE init_proc = "InitRAW" -> InitRAW
      [] init_proc = "InitFull" -> InitFull
      [] init_proc = "InitNoName" -> InitNoName
      [] init_proc = "InitNullName" -> InitNullName
      [] init_proc = "InitThrows" -> EmptyPlugin
      [] init_proc = "InitBMP" -> InitBuiltin("BMP")
      [] init_proc = "InitICO" -> InitBuiltin("ICO")
      [] init_proc = "InitJPEG" -> InitBuiltin("JPEG")
      [] init_proc = "InitJNG" -> InitBuiltin("JNG")
      [] init_proc = "InitKOALA" -> InitBuiltin("KOALA")
      [] init_proc = "InitIFF" -> InitBuiltin("IFF")
      [] init_proc = "InitMNG" -> InitBuiltin("MNG")
      [] init_proc = "InitPNM" -> InitBuiltin("PNM")
      [] init_proc = "InitPCD" -> InitBuiltin("PCD")
      [] init_proc = "InitPCX" -> InitBuiltin("PCX")
      [] init_proc = "InitPNG" -> InitBuiltin("PNG")
      [] init_proc = "InitRAS" -> InitBuiltin("RAS")
      [] init_proc = "InitTARGA" -> InitBuiltin("TARGA")
      [] init_proc = "InitTIFF" -> InitBuiltin("TIFF")
      [] init_proc = "InitWBMP" -> InitBuiltin("WBMP")
      [] init_proc = "InitPSD" -> InitBuiltin("PSD")
      [] init_proc = "InitCUT" -> InitBuiltin("CUT")
      [] init_proc = "InitXBM" -> InitBuiltin("XBM")
      [] init_proc = "InitXPM" -> InitBuiltin("XPM")
      [] init_proc = "InitDDS" -> InitBuiltin("DDS")
      [] init_proc = "InitGIF" -> InitBuiltin("GIF")
      [] init_proc = "InitHDR" -> InitBuiltin("HDR")
      [] init_proc = "InitG3" -> InitBuiltin("G3")
      [] init_proc = "InitSGI" -> InitBuiltin("SGI")
      [] init_proc = "InitEXR" -> InitBuiltin("EXR")
      [] init_proc = "InitJ2K" -> InitBuiltin("J2K")
      [] init_proc = "InitJP2" -> InitBuiltin("JP2")
      [] init_proc = "InitPFM" -> InitBuiltin("PFM")
      [] init_proc = "InitPICT" -> InitBuiltin("PICT")
      [] init_proc = "InitWEBP" -> InitBuiltin("WEBP")
      [] init_proc = "InitJXR" -> InitBuiltin("JXR")

-----------------------------------------------------------------------------
(* PluginList *)

\* The entries FreeImage_Initialise registers, in its order, with the format
\* and extension arguments it passes to AddNode
BuiltinPlugins ==
    <<
       [init_proc |-> "InitBMP", format |-> NULLSTR, extension |-> NULLSTR],
       [init_proc |-> "InitICO", format |-> NULLSTR, extension |-> NULLSTR],
       [init_proc |-> "InitJPEG", format |-> NULLSTR, extension |-> NULLSTR],
       [init_proc |-> "InitJNG", format |-> NULLSTR, extension |-> NULLSTR],
       [init_proc |-> "InitKOALA", format |-> NULLSTR, extension |-> NULLSTR],
       [init_proc |-> "InitIFF", format |-> NULLSTR, extension |-> NULLSTR],
       [init_proc |-> "InitMNG", format |-> NULLSTR, extension |-> NULLSTR],
       [init_proc |-> "InitPNM", format |-> "PBM", extension |-> "pbm"],
       [init_proc |-> "InitPNM", format |-> "PBMRAW", extension |-> "pbm"],
       [init_proc |-> "InitPCD", format |-> NULLSTR, extension |-> NULLSTR],
       [init_proc |-> "InitPCX", format |-> NULLSTR, extension |-> NULLSTR],
       [init_proc |-> "InitPNM", format |-> "PGM", extension |-> "pgm"],
       [init_proc |-> "InitPNM", format |-> "PGMRAW", extension |-> "pgm"],
       [init_proc |-> "InitPNG", format |-> NULLSTR, extension |-> NULLSTR],
       [init_proc |-> "InitPNM", format |-> "PPM", extension |-> "ppm"],
       [init_proc |-> "InitPNM", format |-> "PPMRAW", extension |-> "ppm"],
       [init_proc |-> "InitRAS", format |-> NULLSTR, extension |-> NULLSTR],
       [init_proc |-> "InitTARGA", format |-> NULLSTR, extension |-> NULLSTR],
       [init_proc |-> "InitTIFF", format |-> NULLSTR, extension |-> NULLSTR],
       [init_proc |-> "InitWBMP", format |-> NULLSTR, extension |-> NULLSTR],
       [init_proc |-> "InitPSD", format |-> NULLSTR, extension |-> NULLSTR],
       [init_proc |-> "InitCUT", format |-> NULLSTR, extension |-> NULLSTR],
       [init_proc |-> "InitXBM", format |-> NULLSTR, extension |-> NULLSTR],
       [init_proc |-> "InitXPM", format |-> NULLSTR, extension |-> NULLSTR],
       [init_proc |-> "InitDDS", format |-> NULLSTR, extension |-> NULLSTR],
       [init_proc |-> "InitGIF", format |-> NULLSTR, extension |-> NULLSTR],
       [init_proc |-> "InitHDR", format |-> NULLSTR, extension |-> NULLSTR],
       [init_proc |-> "InitG3", format |-> NULLSTR, extension |-> NULLSTR],
       [init_proc |-> "InitSGI", format |-> NULLSTR, extension |-> NULLSTR],
       [init_proc |-> "InitEXR", format |-> NULLSTR, extension |-> NULLSTR],
       [init_proc |-> "InitJ2K", format |-> NULLSTR, extension |-> NULLSTR],
       [init_proc |-> "InitJP2", format |-> NULLSTR, extension |-> NULLSTR],
       [init_proc |-> "InitPFM", format |-> NULLSTR, extension |-> NULLSTR],
       [init_proc |-> "InitPICT", format |-> NULLSTR, extension |-> NULLSTR],
       [init_proc |-> "InitRAW", format |-> NULLSTR, extension |-> NULLSTR],
       [init_proc |-> "InitWEBP", format |-> NULLSTR, extension |-> NULLSTR],
       [init_proc |-> "InitJXR", format |-> NULLSTR, extension |-> NULLSTR]
    >>

\* std::map::emplace: inserts unless the key is already there
emplace(m, key, node) ==
    IF key \in DOMAIN m THEN m
    ELSE [k \in DOMAIN m \cup {key} |-> IF k = key THEN node ELSE m[k]]

\* PluginList::PluginList: an empty map
EmptyMap == [k \in {} |-> 0]

\* PluginList::Size
Size(m) == Cardinality(DOMAIN m)

\* AddNode with the ids counted from 1
AddNode_CountsFromOne(m, init_proc, instance, format, extension) ==
    LET curr_id == Size(m) + 1
        plugin == InitProc(init_proc)
        the_format ==
            IF format # NULLSTR THEN format
            ELSE IF plugin.format_proc # NOPROC THEN plugin.format_proc
            ELSE NULLSTR
        node == [m_id |-> curr_id, m_instance |-> instance, m_plugin |-> plugin,
                 m_format |-> format, m_extension |-> extension, m_enabled |-> TRUE]
    IN  IF init_proc # NULLPROC /\ ~InitThrowsException(init_proc) /\ the_format # NULLSTR
        THEN [map |-> emplace(m, curr_id, node), ret |-> curr_id]
        ELSE [map |-> m, ret |-> FIF_UNKNOWN]

\* AddNode storing the node before it looks for the format name
AddNode_StoresFirst(m, init_proc, instance, format, extension) ==
    LET curr_id == Size(m)
        plugin == InitProc(init_proc)
        the_format ==
            IF format # NULLSTR THEN format
            ELSE IF plugin.format_proc # NOPROC THEN plugin.format_proc
            ELSE NULLSTR
        node == [m_id |-> curr_id, m_instance |-> instance, m_plugin |-> plugin,
                 m_format |-> format, m_extension |-> extension, m_enabled |-> TRUE]
    IN  IF init_proc # NULLPROC /\ ~InitThrowsException(init_proc)
        THEN [map |-> emplace(m, curr_id, node),
              ret |-> IF the_format # NULLSTR THEN curr_id ELSE FIF_UNKNOWN]
        ELSE [map |-> m, ret |-> FIF_UNKNOWN]

\* AddNode without the try / catch (...) around the setup entry point's call,
\* going on with the table as it is when the entry point throws
AddNode_NoCatch(m, init_proc, instance, format, extension) ==
    LET curr_id == Size(m)
        plugin == InitProc(init_proc)
        the_format ==
            IF format # NULLSTR THEN format
            ELSE IF plugin.format_proc # NOPROC THEN plugin.format_proc
            ELSE NULLSTR
        node == [m_id |-> curr_id, m_instance |-> instance, m_plugin |-> plugin,
                 m_format |-> format, m_extension |-> extension, m_enabled |-> TRUE]
    IN  IF init_proc # NULLPROC /\ the_format # NULLSTR
        THEN [map |-> emplace(m, curr_id, node), ret |-> curr_id]
        ELSE [map |-> m, ret |-> FIF_UNKNOWN]

\* PluginList::AddNode on the map m: the map afterwards and the value returned
AddNode(m, init_proc, instance, format, extension) ==
    LET curr_id == Size(m)
        plugin == InitProc(init_proc)
        the_format ==
            IF format # NULLSTR THEN format
            ELSE IF plugin.format_proc # NOPROC THEN plugin.format_proc
            ELSE NULLSTR
        node == [m_id |-> curr_id, m_instance |-> instance, m_plugin |-> plugin,
                 m_format |-> format, m_extension |-> extension, m_enabled |-> TRUE]
    IN  IF init_proc # NULLPROC /\ ~InitThrowsException(init_proc) /\ the_format # NULLSTR
        THEN [map |-> emplace(m, curr_id, node), ret |-> curr_id]
        ELSE [map |-> m, ret |-> FIF_UNKNOWN]

\* PluginList::FindNodeFromFIF: the node stored under node_id, NULLNODE for nullptr
NULLNODE == [null_node |-> TRUE]
FindNodeFromFIF(m, node_id) ==
    IF node_id \in DOMAIN m THEN m[node_id] ELSE NULLNODE

\* The internal plugin initialization of FreeImage_Initialise: AddNode for
\* BuiltinPlugins[i], BuiltinPlugins[i+1], ... in turn
\* (Size(m) >= 0 always holds; evaluating m first keeps the evaluation shallow.)
RECURSIVE AddBuiltins(_, _)
AddBuiltins(m, i) ==
    IF Size(m) >= 0 /\ i > Len(BuiltinPlugins) THEN m
    ELSE AddBuiltins(AddNode(m, BuiltinPlugins[i].init_proc, 0,
                             BuiltinPlugins[i].format, BuiltinPlugins[i].extension).map,
                     i + 1)

\* LoadLibrary returning a module: the handles count from 1
LoadLibrary(libs) == [libs |-> Append(libs, 0), instance |-> Len(libs) + 1]

\* FreeLibrary(instance)
FreeLibrary(libs, instance) == [libs EXCEPT ![instance] = @ + 1]

\* PluginList::~PluginList: FreeLibrary of every node's non-null m_instance
\* (compiled on Windows alone; elsewhere no node has an m_instance)
DestroyPluginList(m, libs) ==
    [h \in DOMAIN libs |->
        libs[h] + Cardinality({k \in DOMAIN m : m[k].m_instance = h})]

\* s_plugins: a null pointer, or a PluginList
NullList == [null |-> TRUE, m_plugin_map |-> EmptyMap]
List(m) == [null |-> FALSE, m_plugin_map |-> m]

\* FreeImage_GetFIFCount
FreeImage_GetFIFCount == IF ~s_plugins.null THEN Size(s_plugins.m_plugin_map) ELSE 0

-----------------------------------------------------------------------------
(* Lookups *)

\* The map is a std::map, iterated in ascending key order (the keys are not
\* negative): the loops below try i = 0, 1, ... and skip what is no key, until
\* no key is left
AtEnd(m, i) == \A k \in DOMAIN m : k < i

\* PluginList::FindNodeFromFormat, from key i on
RECURSIVE FindNodeFromFormat_loop(_, _, _)
FindNodeFromFormat_loop(m, format, i) ==
    IF AtEnd(m, i) THEN NULLNODE
    ELSE IF i \notin DOMAIN m THEN FindNodeFromFormat_loop(m, format, i + 1)
    ELSE LET the_format == IF m[i].m_format # NULLSTR THEN m[i].m_format
                           ELSE m[i].m_plugin.format_proc
         IN  IF m[i].m_enabled /\ FreeImage_stricmp(Chars(the_format), Chars(format)) = 0
             THEN m[i]
             ELSE FindNodeFromFormat_loop(m, format, i + 1)

\* FindNodeFromFormat without the test of m_enabled
RECURSIVE FindNodeFromFormat_IgnoresEnabled_loop(_, _, _)
FindNodeFromFormat_IgnoresEnabled_loop(m, format, i) ==
    IF AtEnd(m, i) THEN NULLNODE
    ELSE IF i \notin DOMAIN m THEN FindNodeFromFormat_IgnoresEnabled_loop(m, format, i + 1)
    ELSE LET the_format == IF m[i].m_format # NULLSTR THEN m[i].m_format
                           ELSE m[i].m_plugin.format_proc
         IN  IF FreeImage_stricmp(Chars(the_format), Chars(format)) = 0
             THEN m[i]
             ELSE FindNodeFromFormat_IgnoresEnabled_loop(m, format, i + 1)

FindNodeFromFormat_IgnoresEnabled(m, format) ==
    FindNodeFromFormat_IgnoresEnabled_loop(m, format, 0)

FindNodeFromFormat(m, format) == FindNodeFromFormat_loop(m, format, 0)

\* PluginList::FindNodeFromMime (strcmp(a, b) == 0 is equality of the strings)
RECURSIVE FindNodeFromMime_loop(_, _, _)
FindNodeFromMime_loop(m, mime, i) ==
    IF AtEnd(m, i) THEN NULLNODE
    ELSE IF i \notin DOMAIN m THEN FindNodeFromMime_loop(m, mime, i + 1)
    ELSE LET the_mime == IF m[i].m_plugin.mime_proc # NOPROC THEN m[i].m_plugin.mime_proc
                         ELSE ""
         IN  IF m[i].m_enabled /\ the_mime # NULLSTR /\ the_mime = mime
             THEN m[i]
             ELSE FindNodeFromMime_loop(m, mime, i + 1)

FindNodeFromMime(m, mime) == FindNodeFromMime_loop(m, mime, 0)

\* FreeImage_GetFIFFromFormat
GetFIFFromFormat(format) ==
    IF ~s_plugins.null
    THEN LET node == FindNodeFromFormat(s_plugins.m_plugin_map, format)
         IN  IF node # NULLNODE THEN node.m_id ELSE FIF_UNKNOWN
    ELSE FIF_UNKNOWN

\* FreeImage_GetFIFFromMime
GetFIFFromMime(mime) ==
    IF ~s_plugins.null
    THEN LET node == FindNodeFromMime(s_plugins.m_plugin_map, mime)
         IN  IF node # NULLNODE THEN node.m_id ELSE FIF_UNKNOWN
    ELSE FIF_UNKNOWN

\* FreeImage_GetFormatFromFIF
FreeImage_GetFormatFromFIF(fif) ==
    IF ~s_plugins.null
    THEN LET node == FindNodeFromFIF(s_plugins.m_plugin_map, fif)
         IN  IF node = NULLNODE THEN NULLSTR
             ELSE IF node.m_format # NULLSTR THEN node.m_format
             ELSE node.m_plugin.format_proc
    ELSE NULLSTR

\* FreeImage_GetFIFMimeType
FreeImage_GetFIFMimeType(fif) ==
    IF ~s_plugins.null
    THEN LET node == FindNodeFromFIF(s_plugins.m_plugin_map, fif)
         IN  IF node = NULLNODE THEN NULLSTR
             ELSE IF node.m_plugin.mime_proc # NOPROC THEN node.m_plugin.mime_proc
             ELSE NULLSTR
    ELSE NULLSTR

\* FreeImage_GetFIFExtensionList
FreeImage_GetFIFExtensionList(fif) ==
    IF ~s_plugins.null
    THEN LET node == FindNodeFromFIF(s_plugins.m_plugin_map, fif)
         IN  IF node = NULLNODE THEN NULLSTR
             ELSE IF node.m_extension # NULLSTR THEN node.m_extension
             ELSE IF node.m_plugin.extension_proc # NOPROC THEN node.m_plugin.extension_proc
             ELSE NULLSTR
    ELSE NULLSTR

\* strrchr(s, c): the index of the last c in s, 0 when there is none
strrchr(s, c) ==
    IF \E i \in 1..Len(s) : s[i] = c
    THEN CHOOSE i \in 1..Len(s) : s[i] = c /\ \A j \in (i + 1)..Len(s) : s[j] # c
    ELSE 0

\* The tokens the strtok(copy, delim), strtok(nullptr, delim), ... calls give
\* for the string s: the maximal runs of characters other than delim (empty
\* runs are skipped).  A token starts after a delimiter or at the start of s
\* and ends before the next delimiter or at the end of s.
strtok(s, delim) ==
    LET starts == {a \in 1..Len(s) : s[a] # delim /\ (a = 1 \/ s[a - 1] = delim)}
        end(a) == CHOOSE b \in a..Len(s) :
                      /\ b = Len(s) \/ s[b + 1] = delim
                      /\ \A j \in a..b : s[j] # delim
    IN  {SubSeq(s, a, end(a)) : a \in starts}

\* The loop of FreeImage_GetFIFFromFilename from id i on.  fault: the loop read
\* through a null pointer (a missing node, or strlen of a null extension list).
\* strlen(nullptr) is undefined: null_reads_empty tells whether address 0 reads
\* as an empty string (the loop goes on) or the read faults.
RECURSIVE GetFIFFromFilename_loop(_, _, _)
GetFIFFromFilename_loop(extension, i, null_reads_empty) ==
    IF ~(i < FreeImage_GetFIFCount) THEN [ret |-> FIF_UNKNOWN, fault |-> FALSE]
    ELSE LET node == FindNodeFromFIF(s_plugins.m_plugin_map, i)
             list == FreeImage_GetFIFExtensionList(i)
             tokens == strtok(Chars(list), 44)
         IN  IF node = NULLNODE THEN [ret |-> FIF_UNKNOWN, fault |-> TRUE]
             ELSE IF ~node.m_enabled
             THEN GetFIFFromFilename_loop(extension, i + 1, null_reads_empty)
             ELSE IF FreeImage_stricmp(Chars(FreeImage_GetFormatFromFIF(i)), extension) = 0
             THEN [ret |-> i, fault |-> FALSE]
             ELSE IF list = NULLSTR /\ ~null_reads_empty
             THEN [ret |-> FIF_UNKNOWN, fault |-> TRUE]
             ELSE IF list # NULLSTR
                     /\ \E token \in tokens : FreeImage_stricmp(token, extension) = 0
             THEN [ret |-> i, fault |-> FALSE]
             ELSE GetFIFFromFilename_loop(extension, i + 1, null_reads_empty)

\* FreeImage_GetFIFFromFilename
GetFIFFromFilename(filename, null_reads_empty) ==
    IF filename # NULLSTR
    THEN LET place == strrchr(Chars(filename), 46)
             extension == IF place # 0
                          THEN SubSeq(Chars(filename), place + 1, Len(Chars(filename)))
                          ELSE Chars(filename)
         IN  GetFIFFromFilename_loop(extension, 0, null_reads_empty)
    ELSE [ret |-> FIF_UNKNOWN, fault |-> FALSE]

-----------------------------------------------------------------------------
(* Inputs of the calls *)

NumBuiltins == Len(BuiltinPlugins)

\* The id FreeImage_Initialise gives the RAW plugin
RawId == CHOOSE i \in 0..(NumBuiltins - 1) : BuiltinPlugins[i + 1].init_proc = "InitRAW"

\* (setup entry point, format override, extension override) of a registration
RegisterInputs ==
    { <<NULLPROC, NULLSTR, NULLSTR>>,      <<NULLPROC, "XB", NULLSTR>>,
      <<"InitThrows", NULLSTR, NULLSTR>>,  <<"InitThrows", "XB", NULLSTR>>,
      <<"InitNoName", NULLSTR, NULLSTR>>,  <<"InitNoName", "XB", NULLSTR>>,
      <<"InitNullName", NULLSTR, NULLSTR>>,
      <<"InitFull", NULLSTR, NULLSTR>>,    <<"InitFull", "XB", "xb">> }

\* ids passed to Load, Save and Validate: negative, the RAW plugin, the
\* registered plugins, and one past every id
FifInputs == {FIF_UNKNOWN, RawId} \cup (NumBuiltins..(NumBuiltins + MaxExtra))

\* ids passed to FreeImage_SetPluginEnabled
EnableInputs == {FIF_UNKNOWN, RawId, NumBuiltins, NumBuiltins + MaxExtra}

\* session data an open hook returns, bitmaps a load hook returns
DataInputs == {0, 1}
\* how a load or save hook ends: it returns 0 / FALSE, returns a bitmap / TRUE, or throws
OutcomeInputs == {"fail", "ok", "throw"}
\* stream positions: the start, and behind a 32-byte signature
Positions == {0, 32}
\* format names, MIME types and file names looked up
FormatInputs == {"RAW", "raw", "Raw", "PBM", "pbm", "JPEG", "jpeg", "XA", "xa", "XB", "nope", ""}
MimeInputs == {"image/x-dcraw", "image/x-xa", "image/x-XA", "image/x-builtin", "nope", ""}
FilenameInputs == {"photo.JPG", "photo.jpg", "a.raw", "a.RAW", "x.xaa", "f.XB", "noext",
                   "raw", "a.b.pbm", "tiff.", "", NULLSTR}

\* The record of a call
\*   op         the API function
\*   fif        its FREE_IMAGE_FORMAT argument
\*   init_proc  its FI_InitProc argument
\*   str        its string argument (format override, format name, MIME, filename)
\*   flag       its boolean argument (enable; whether the bitmap has pixels)
\*   ret        the value returned
\*   raised     an exception left the function instead
Call(op, fif, init_proc, str, flag, ret, raised) ==
    [op |-> op, fif |-> fif, init_proc |-> init_proc, str |-> str, flag |-> flag,
     ret |-> ret, raised |-> raised]

\* An entry of calls_made
\*   what    the hook or function called
\*   data    the session data (or id, or stream position) passed to it
\*   flag    the boolean passed to it (open: open_for_reading)
\*   result  the value it returned
\*   threw   it threw instead of returning
Made(what, data, flag, result, threw) ==
    [what |-> what, data |-> data, flag |-> flag, result |-> result, threw |-> threw]

BoolToInt(b) == IF b THEN 1 ELSE 0

NoCall == Call("none", FIF_UNKNOWN, NULLPROC, NULLSTR, FALSE, 0, FALSE)

\* The single-threaded caller makes one call at a time: call holds the outcome
\* of a call until the caller has taken it (Return), and a dead process makes
\* no call
Ready == ~crashed /\ call = NoCall

-----------------------------------------------------------------------------
(* Integers of a fixed width *)

\* An integer of the program is held as the bytes of its object, least
\* significant first (two's complement when signed), so that an 8, 16, 32 or
\* 64 bit value keeps its width: a product is cut to the width of the type it
\* is computed in.
Pow256 == <<1, 256, 65536, 16777216>>

\* the k bytes of the integer n (-2^31 <= n < 2^31)
ToBytes(n, k) ==
    [i \in 1..k |-> IF i <= 4 THEN (n \div Pow256[i]) % 256
                    ELSE IF n < 0 THEN 255 ELSE 0]

\* conversion to an unsigned type of k bytes
ZeroExtend(a, k) == [i \in 1..k |-> IF i <= Len(a) THEN a[i] ELSE 0]

\* conversion of a signed value to a type of k bytes
SignExtend(a, k) ==
    [i \in 1..k |-> IF i <= Len(a) THEN a[i]
                    ELSE IF a[Len(a)] >= 128 THEN 255 ELSE 0]

\* the unsigned value of bytes that hold less than 2^31
ToInt(a) ==
    LET b == ZeroExtend(a, 4)
    IN  b[1] + 256 * b[2] + 65536 * b[3] + 16777216 * b[4]

RECURSIVE ColumnSum(_, _, _, _)
\* the sum of the byte products a[i] * b[pos + 1 - i] for i from 1 to upto
ColumnSum(a, b, pos, upto) ==
    IF upto = 0 THEN 0
    ELSE LET j == pos + 1 - upto
         IN  ColumnSum(a, b, pos, upto - 1)
             + (IF j <= Len(b) THEN a[upto] * b[j] ELSE 0)

RECURSIVE TimesFrom(_, _, _, _, _, _)
TimesFrom(a, b, k, pos, carry, acc) ==
    IF pos > k THEN acc
    ELSE LET s == ColumnSum(a, b, pos, IF pos < Len(a) THEN pos ELSE Len(a)) + carry
         IN  TimesFrom(a, b, k, pos + 1, s \div 256, Append(acc, s % 256))

\* a * b in an unsigned type of k bytes: the product modulo 2^(8k)
Times(a, b, k) == TimesFrom(a, b, k, 1, 0, <<>>)

RECURSIVE PlusFrom(_, _, _, _, _, _)
PlusFrom(a, b, k, pos, carry, acc) ==
    IF pos > k THEN acc
    ELSE LET s == a[pos] + b[pos] + carry
         IN  PlusFrom(a, b, k, pos + 1, s \div 256, Append(acc, s % 256))

\* a + b in a type of k bytes (a and b of k bytes)
Plus(a, b, k) == PlusFrom(a, b, k, 1, 0, <<>>)

RECURSIVE MinusFrom(_, _, _, _, _, _)
MinusFrom(a, b, k, pos, borrow, acc) ==
    IF pos > k THEN acc
    ELSE LET d == a[pos] - b[pos] - borrow
         IN  MinusFrom(a, b, k, pos + 1, IF d < 0 THEN 1 ELSE 0, Append(acc, d % 256))

\* a - b in a type of k bytes (a and b of k bytes): the difference modulo 2^(8k)
Minus(a, b, k) == MinusFrom(a, b, k, 1, 0, <<>>)

\* a >> bits, for a whole number of bytes
ShiftRight(a, bits) ==
    LET n == bits \div 8
    IN  [i \in 1..Len(a) |-> IF i + n <= Len(a) THEN a[i + n] ELSE 0]

RECURSIVE LessFrom(_, _, _)
LessFrom(a, b, pos) ==
    IF pos = 0 THEN FALSE
    ELSE IF a[pos] # b[pos] THEN a[pos] < b[pos]
    ELSE LessFrom(a, b, pos - 1)

\* a < b for unsigned values of the same number of bytes
Less(a, b) == LessFrom(a, b, Len(a))

\* std::min on unsigned values
StdMin(a, b) == IF Less(b, a) THEN b ELSE a

RECURSIVE DivideFrom(_, _, _, _)
DivideFrom(a, d, pos, rem) ==
    IF pos = 0 THEN <<>>
    ELSE LET x == rem * 256 + a[pos]
         IN  Append(DivideFrom(a, d, pos - 1, x % d), x \div d)

\* a / d for an unsigned a and a small divisor d (0 < d < 2^23)
Divide(a, d) == DivideFrom(a, d, Len(a), 0)
-----------------------------------------------------------------------------
(* Bitmaps and the caller's histogram storage *)

\* A channel value is a tuple of integers: the bytes of the value, least
\* significant first, for an integer encoding, and the one number it holds for
\* a floating-point encoding (the values explored are exact in float and
\* double). A pixel is the tuple of its channel values: red, green, blue and
\* alpha, or real and imaginary part, or the single value.

\* A bitmap: FIBITMAP, with the pixels in the order BitmapForEach visits them
Bitmap(has_pixels, type, bpp, colorType, width, height, pixels) ==
    [has_pixels |-> has_pixels, type |-> type, bpp |-> bpp, colorType |-> colorType,
     width |-> width, height |-> height, pixels |-> pixels]

FreeImage_HasPixels(dib) == dib.has_pixels
FreeImage_GetImageType(dib) == dib.type
FreeImage_GetBPP(dib) == dib.bpp
FreeImage_GetColorType2(dib) == dib.colorType
FreeImage_GetWidth(dib) == dib.width
FreeImage_GetHeight(dib) == dib.height

\* The null pointer among the histogram pointers; a non-null pointer is the
\* address of a counter of the caller's storage
NULLHIST == 0

\* what the caller's storage holds before a call
Stale == 7777
\* what the caller's outMinVal / outMaxVal variables hold before a call
Unwritten == <<>>

-----------------------------------------------------------------------------
(* Channel selectors *)

SelectRed(p) == p[1]
SelectGreen(p) == p[2]
SelectBlue(p) == p[3]
SelectReal(p) == p[1]
SelectImag(p) == p[2]
SelectIdentity(p) == p[1]

\* Brightness{}(p): the weighted combination of red, green and blue (weights
\* 0.2126, 0.7152, 0.0722), converted to the channel's type
Brightness(p, floating) ==
    IF floating
    THEN <<(2126 * p[1][1] + 7152 * p[2][1] + 722 * p[3][1]) \div 10000>>
    ELSE LET k == Len(p[1]) + 2
             sum == Plus(Plus(Times(p[1], ToBytes(2126, 2), k),
                              Times(p[2], ToBytes(7152, 2), k), k),
                         Times(p[3], ToBytes(722, 2), k), k)
         IN  ZeroExtend(Divide(sum, 10000), Len(p[1]))

SelectRgbBrightness(p, floating) == Brightness(p, floating)

\* std::abs(std::complex(p.r, p.i)), for the parts explored (the magnitude is
\* a whole number)
SelectAbs(p) ==
    LET r == IF p[1][1] < 0 THEN -p[1][1] ELSE p[1][1]
        i == IF p[2][1] < 0 THEN -p[2][1] ELSE p[2][1]
    IN  <<CHOOSE n \in 0..(r + i) : n * n = r * r + i * i>>

\* PixelSelector_::operator()(pixel) of the selector named
Select(selector, p, floating) ==
    CASE selector = "SelectRed" -> SelectRed(p)
      [] selector = "SelectGreen" -> SelectGreen(p)
      [] selector = "SelectBlue" -> SelectBlue(p)
      [] selector = "SelectRgbBrightness" -> SelectRgbBrightness(p, floating)
      [] selector = "SelectReal" -> SelectReal(p)
      [] selector = "SelectImag" -> SelectImag(p)
      [] selector = "SelectAbs" -> SelectAbs(p)
      [] selector = "SelectIdentity" -> SelectIdentity(p)

-----------------------------------------------------------------------------
(* Bin indices *)

\* ToWiderType<ValueType>: the integer type of twice the bits
ToWiderType(bits) == 2 * bits

\* Bytes of the type value * mBinsNumber is computed in: the widened value,
\* promoted, meets the uint32_t mBinsNumber
WidthOfProduct(bits) == IF ToWiderType(bits) > 32 THEN ToWiderType(bits) \div 8 ELSE 4

\* 1ULL << bits
OneShiftedLeft(bits) == [i \in 1..8 |-> IF i = bits \div 8 + 1 THEN 1 ELSE 0]

\* mBinsNumber - 1
LastBin(mBinsNumber) == Minus(mBinsNumber, ToBytes(1, 4), 4)

\* the index without scale, the greater of the value and the last bin taken
CalculateBinIndexWithoutScale_Max(value, mBinsNumber) ==
    LET i == ZeroExtend(value, 4)
    IN  IF Less(i, LastBin(mBinsNumber)) THEN LastBin(mBinsNumber) ELSE i

\* HistogramUInt: the value itself, when there is one bin for each value
CalculateBinIndexWithoutScale(value, mBinsNumber) ==
    LET i == ZeroExtend(value, 4)
    IN  StdMin(i, LastBin(mBinsNumber))

\* HistogramUInt: (value * mBinsNumber) >> bits
CalculateBinIndexWithScale(value, mBinsNumber, bits) ==
    LET k == WidthOfProduct(bits)
        product == Times(value, mBinsNumber, k)
        i == ZeroExtend(ShiftRight(product, bits), 4)
    IN  StdMin(i, LastBin(mBinsNumber))

\* std::numeric_limits<Ty_>::lowest() and max() of an integer type
numeric_limits_lowest(bits, signed) ==
    [i \in 1..bits \div 8 |-> IF signed /\ i = bits \div 8 THEN 128 ELSE 0]
numeric_limits_max(bits, signed) ==
    [i \in 1..bits \div 8 |-> IF signed /\ i = bits \div 8 THEN 127 ELSE 255]

\* HistogramSInt: ((value - min) * mBinsNumber) >> bits
CalculateBinIndexSigned(value, mBinsNumber, bits) ==
    LET w == ToWiderType(bits) \div 8
        uvalue == Minus(SignExtend(value, w),
                        SignExtend(numeric_limits_lowest(bits, TRUE), w), w)
        k == WidthOfProduct(bits)
        product == Times(uvalue, mBinsNumber, k)
        i == ZeroExtend(ShiftRight(product, bits), 4)
    IN  StdMin(i, LastBin(mBinsNumber))

\* HistogramFloat: (value - mMinVal) * (mBinsNumber / (mMaxVal - mMinVal)), not
\* below 0, on exact numbers
CalculateBinIndex(value, mBinsNumber, mMinVal, mMaxVal) ==
    LET i == IF value[1] <= mMinVal THEN 0
             ELSE ((value[1] - mMinVal) * ToInt(mBinsNumber)) \div (mMaxVal - mMinVal)
    IN  StdMin(ToBytes(i, 4), LastBin(mBinsNumber))

\* The index function a traversal is made with
IndexFunction(name, mBinsNumber, bits, mMinVal, mMaxVal) ==
    [name |-> name, mBinsNumber |-> mBinsNumber, bits |-> bits,
     mMinVal |-> mMinVal, mMaxVal |-> mMaxVal]

\* indexFunction(value)
Apply(f, value) ==
    CASE f.name = "CalculateBinIndexWithoutScale" ->
             CalculateBinIndexWithoutScale(value, f.mBinsNumber)
      [] f.name = "CalculateBinIndexWithScale" ->
             CalculateBinIndexWithScale(value, f.mBinsNumber, f.bits)
      [] f.name = "CalculateBinIndexSigned" ->
             CalculateBinIndexSigned(value, f.mBinsNumber, f.bits)
      [] f.name = "CalculateBinIndex" ->
             CalculateBinIndex(value, f.mBinsNumber, f.mMinVal, f.mMaxVal)
-----------------------------------------------------------------------------
(* Histogram builders and traversals *)

\* HistogramBuilder<PixelSelector_>(hist, stride)
HistogramBuilder(selector, hist, stride) ==
    [selector |-> selector, mHist |-> hist, mStride |-> stride]

Discardable(b) == b.mHist = NULLHIST

\* SetZero storing zero: mHist[0] = 0
SetZero_Clears(mem, b, v) == [mem EXCEPT ![b.mHist] = 0]

\* HistogramBuilder::SetZero: mHist[0] = v
SetZero(mem, b, v) == [mem EXCEPT ![b.mHist] = v]

\* HistogramBuilder::Add storing 1 in the bin: mHist[i * mStride] = 1
Add_Overwrites(mem, b, pixel, indexFunction, floating) ==
    LET i == Apply(indexFunction, Select(b.selector, pixel, floating))
    IN  [mem EXCEPT ![b.mHist + ToInt(Times(i, ToBytes(b.mStride, 4), 4))] = 1]

\* HistogramBuilder::Add: ++mHist[i * mStride]
Add(mem, b, pixel, indexFunction, floating) ==
    LET i == Apply(indexFunction, Select(b.selector, pixel, floating))
    IN  [mem EXCEPT ![b.mHist + ToInt(Times(i, ToBytes(b.mStride, 4), 4))] = @ + 1]

RECURSIVE SetZeroEach(_, _, _, _)
\* (..., builders.SetZero(v)) on the first n builders
SetZeroEach(mem, builders, v, n) ==
    IF n = 0 THEN mem
    ELSE SetZero(SetZeroEach(mem, builders, v, n - 1), builders[n], v)

RECURSIVE AddEach(_, _, _, _, _, _)
\* (..., builders.Add(p, indexFunction)) on the first n builders
AddEach(mem, builders, pixel, indexFunction, floating, n) ==
    IF n = 0 THEN mem
    ELSE Add(AddEach(mem, builders, pixel, indexFunction, floating, n - 1),
             builders[n], pixel, indexFunction, floating)

RECURSIVE BitmapForEach(_, _, _, _, _, _)
\* BitmapForEach<PixelType_>(mBitmap, ...) over the first n pixels
BitmapForEach(mem, dib, builders, indexFunction, floating, n) ==
    IF n = 0 THEN mem
    ELSE AddEach(BitmapForEach(mem, dib, builders, indexFunction, floating, n - 1),
                 builders, dib.pixels[n], indexFunction, floating, Len(builders))

\* HistogramFloat<PixelType_>(dib, binsNumber, minVal, maxVal)(builders...)
HistogramFloat(mem, dib, mBinsNumber, mMinVal, mMaxVal, builders) ==
    IF mMinVal > mMaxVal \/ ToInt(mBinsNumber) < 1
    THEN [ok |-> FALSE, mem |-> mem]
    ELSE IF mMinVal = mMaxVal
    THEN LET pixelsNumber == FreeImage_GetWidth(dib) * FreeImage_GetHeight(dib)
         IN  [ok |-> TRUE, mem |-> SetZeroEach(mem, builders, pixelsNumber, Len(builders))]
    ELSE [ok |-> TRUE,
          mem |-> BitmapForEach(mem, dib, builders,
                                IndexFunction("CalculateBinIndex", mBinsNumber, 0,
                                              mMinVal, mMaxVal),
                                TRUE, Len(dib.pixels))]

\* The index function HistogramSInt counts with
IndexFunctionSInt(mBinsNumber, bits) ==
    IndexFunction("CalculateBinIndexSigned", mBinsNumber, bits, 0, 0)

\* HistogramSInt<PixelType_>(dib, binsNumber)(builders...)
HistogramSInt(mem, dib, bits, mBinsNumber, builders) ==
    IF ToInt(mBinsNumber) < 1
    THEN [ok |-> FALSE, mem |-> mem]
    ELSE [ok |-> TRUE,
          mem |-> BitmapForEach(mem, dib, builders, IndexFunctionSInt(mBinsNumber, bits),
                                FALSE, Len(dib.pixels))]

\* The index function HistogramUInt counts with: without scale when
\* mBinsNumber == (1ULL << bits), with scale otherwise
IndexFunctionUInt(mBinsNumber, bits) ==
    IF ZeroExtend(mBinsNumber, 8) = OneShiftedLeft(bits)
    THEN IndexFunction("CalculateBinIndexWithoutScale", mBinsNumber, bits, 0, 0)
    ELSE IndexFunction("CalculateBinIndexWithScale", mBinsNumber, bits, 0, 0)

\* HistogramUInt<PixelType_>(dib, binsNumber)(builders...)
HistogramUInt(mem, dib, bits, mBinsNumber, builders) ==
    IF ToInt(mBinsNumber) < 1
    THEN [ok |-> FALSE, mem |-> mem]
    ELSE [ok |-> TRUE,
          mem |-> BitmapForEach(mem, dib, builders, IndexFunctionUInt(mBinsNumber, bits),
                                FALSE, Len(dib.pixels))]

RECURSIVE InvokeWithBuildersImpl(_, _)
\* InvokeWithBuildersImpl<BuildersNum_>::Apply: the builders the function is
\* called with, a builder with a null pointer being dropped
InvokeWithBuildersImpl(BuildersNum, args) ==
    IF BuildersNum = 0 THEN args
    ELSE LET b0 == Head(args)
         IN  IF ~Discardable(b0)
             THEN InvokeWithBuildersImpl(BuildersNum - 1, Append(Tail(args), b0))
             ELSE InvokeWithBuildersImpl(BuildersNum - 1, Tail(args))

\* The builders InvokeWithBuilders(f, builders...) calls f with
InvokeWithBuilders(builders) == InvokeWithBuildersImpl(Len(builders), builders)

\* SetIntMinMax taking the limits of the unsigned type of the same bits
SetIntMinMax_Unsigned(out, outMinVal, outMaxVal, bits, signed) ==
    [min |-> IF outMinVal THEN numeric_limits_lowest(bits, FALSE) ELSE out.min,
     max |-> IF outMaxVal THEN numeric_limits_max(bits, FALSE) ELSE out.max]

\* SetIntMinMax<Ty_>(outMinVal, outMaxVal)
SetIntMinMax(out, outMinVal, outMaxVal, bits, signed) ==
    [min |-> IF outMinVal THEN numeric_limits_lowest(bits, signed) ELSE out.min,
     max |-> IF outMaxVal THEN numeric_limits_max(bits, signed) ELSE out.max]

RECURSIVE ClearHistogram_loop(_, _, _, _, _)
ClearHistogram_loop(mem, hist, stride, binsNumber, i) ==
    IF i < binsNumber
    THEN ClearHistogram_loop([mem EXCEPT ![hist] = 0], hist + stride, stride, binsNumber,
                             i + 1)
    ELSE mem

\* ClearHistogram taking every stride for 1
ClearHistogram_Contiguous(mem, hist, stride, binsNumber) ==
    IF hist # NULLHIST
    THEN [a \in DOMAIN mem |-> IF a >= hist /\ a < hist + binsNumber THEN 0 ELSE mem[a]]
    ELSE mem

\* ClearHistogram(hist, stride, binsNumber)
ClearHistogram(mem, hist, stride, binsNumber) ==
    IF hist # NULLHIST
    THEN IF stride = 1
         THEN [a \in DOMAIN mem |-> IF a >= hist /\ a < hist + binsNumber THEN 0 ELSE mem[a]]
         ELSE ClearHistogram_loop(mem, hist, stride, binsNumber, 0)
    ELSE mem

RECURSIVE ChannelMin(_, _, _)
\* the least value of channel c over the first n pixels
ChannelMin(dib, c, n) ==
    IF n = 1 THEN dib.pixels[1][c][1]
    ELSE LET m == ChannelMin(dib, c, n - 1)
             v == dib.pixels[n][c][1]
         IN  IF v < m THEN v ELSE m

RECURSIVE ChannelMax(_, _, _)
\* the greatest value of channel c over the first n pixels
ChannelMax(dib, c, n) ==
    IF n = 1 THEN dib.pixels[1][c][1]
    ELSE LET m == ChannelMax(dib, c, n - 1)
             v == dib.pixels[n][c][1]
         IN  IF v > m THEN v ELSE m

\* FreeImage_FindMinMaxValue(dib, &minChannelValues, &maxChannelValues): the
\* least and the greatest value of each channel, or a failure
FreeImage_FindMinMaxValue(dib, scan_ok) ==
    LET channels == 1..Len(dib.pixels[1])
    IN  [ok |-> scan_ok,
         min |-> [c \in channels |-> ChannelMin(dib, c, Len(dib.pixels))],
         max |-> [c \in channels |-> ChannelMax(dib, c, Len(dib.pixels))]]

\* StripAlpha: the pixel without its alpha channel
StripAlpha(p) == IF Len(p) = 4 THEN SubSeq(p, 1, 3) ELSE p

\* PixelMin / PixelMax: the least and the greatest channel of a pixel
PixelMin(p) == CHOOSE v \in {p[c] : c \in DOMAIN p} : \A c \in DOMAIN p : v <= p[c]
PixelMax(p) == CHOOSE v \in {p[c] : c \in DOMAIN p} : \A c \in DOMAIN p : v >= p[c]

\* FindHistogramBounds<PixelType_>(dib, minVal, maxVal, outMinVal, outMaxVal)
FindHistogramBounds(dib, scan_ok, out, outMinVal, outMaxVal) ==
    LET found == FreeImage_FindMinMaxValue(dib, scan_ok)
        minVal == PixelMin(StripAlpha(found.min))
        maxVal == PixelMax(StripAlpha(found.max))
    IN  IF ~found.ok
        THEN [ok |-> FALSE, minVal |-> 0, maxVal |-> 0, out |-> out]
        ELSE [ok |-> TRUE, minVal |-> minVal, maxVal |-> maxVal,
              out |-> [min |-> IF outMinVal THEN <<minVal>> ELSE out.min,
                       max |-> IF outMaxVal THEN <<maxVal>> ELSE out.max]]

\* The builders FreeImage_MakeHistogram makes for the red, green, blue and
\* brightness channel, for the real part, the imaginary part and the magnitude,
\* and for the single channel
RgbBuilders(hist, stride) ==
    <<HistogramBuilder("SelectRed", hist[1], stride[1]),
      HistogramBuilder("SelectGreen", hist[2], stride[2]),
      HistogramBuilder("SelectBlue", hist[3], stride[3]),
      HistogramBuilder("SelectRgbBrightness", hist[4], stride[4])>>
ComplexBuilders(hist, stride) ==
    <<HistogramBuilder("SelectReal", hist[1], stride[1]),
      HistogramBuilder("SelectImag", hist[2], stride[2]),
      HistogramBuilder("SelectAbs", hist[3], stride[3])>>
\* an identity builder on each of the four buffers
IdentityBuilders_OnEvery(hist, stride) ==
    [k \in 1..4 |-> HistogramBuilder("SelectIdentity", hist[k], stride[k])]

\* the builder of the single-channel encodings
IdentityBuilders(hist, stride) ==
    <<HistogramBuilder("SelectIdentity", hist[1], stride[1])>>

\* FreeImage_MakeHistogram once the arguments are accepted: the buffers are
\* cleared and the bitmap is counted by the class of its encoding
MakeHistogram_switch(mem, out, dib, scan_ok, binsNumber, outMinVal, outMaxVal, hist, stride) ==
    LET histR == hist[1]
        histG == hist[2]
        histB == hist[3]
        histL == hist[4]
        strideR == stride[1]
        strideG == stride[2]
        strideB == stride[3]
        strideL == stride[4]
        cleared == ClearHistogram(
                       ClearHistogram(
                           ClearHistogram(
                               ClearHistogram(mem, histR, strideR, binsNumber),
                               histG, strideG, binsNumber),
                           histB, strideB, binsNumber),
                       histL, strideL, binsNumber)
        mBinsNumber == ToBytes(binsNumber, 4)
        failed == [ret |-> FALSE, mem |-> cleared, out |-> out]
        UInt(bits, builders) ==
            LET r == HistogramUInt(cleared, dib, bits, mBinsNumber,
                                   InvokeWithBuilders(builders))
            IN  [ret |-> r.ok, mem |-> r.mem,
                 out |-> IF r.ok THEN SetIntMinMax(out, outMinVal, outMaxVal, bits, FALSE)
                         ELSE out]
        SInt(bits, builders) ==
            LET r == HistogramSInt(cleared, dib, bits, mBinsNumber,
                                   InvokeWithBuilders(builders))
            IN  [ret |-> r.ok, mem |-> r.mem,
                 out |-> IF r.ok THEN SetIntMinMax(out, outMinVal, outMaxVal, bits, TRUE)
                         ELSE out]
        Float(builders) ==
            LET b == FindHistogramBounds(dib, scan_ok, out, outMinVal, outMaxVal)
                r == HistogramFloat(cleared, dib, mBinsNumber, b.minVal, b.maxVal,
                                    InvokeWithBuilders(builders))
            IN  IF ~b.ok THEN failed
                ELSE [ret |-> r.ok, mem |-> r.mem, out |-> b.out]
        type == FreeImage_GetImageType(dib)
        bpp == FreeImage_GetBPP(dib)
        colorType == FreeImage_GetColorType2(dib)
    IN  CASE type = "FIT_BITMAP" ->
                 IF (colorType = "FIC_RGBALPHA" \/ colorType = "FIC_YUV") /\ bpp = 32
                 THEN UInt(8, RgbBuilders(hist, stride))
                 ELSE IF (colorType = "FIC_RGB" \/ colorType = "FIC_YUV") /\ bpp = 24
                 THEN UInt(8, RgbBuilders(hist, stride))
                 ELSE IF colorType = "FIC_MINISBLACK" /\ bpp = 8
                 THEN UInt(8, IdentityBuilders(hist, stride))
                 ELSE failed
          [] type = "FIT_RGBF" -> Float(RgbBuilders(hist, stride))
          [] type = "FIT_RGBAF" -> Float(RgbBuilders(hist, stride))
          [] type = "FIT_COMPLEX" -> Float(ComplexBuilders(hist, stride))
          [] type = "FIT_COMPLEXF" -> Float(ComplexBuilders(hist, stride))
          [] type = "FIT_DOUBLE" -> Float(IdentityBuilders(hist, stride))
          [] type = "FIT_FLOAT" -> Float(IdentityBuilders(hist, stride))
          [] type = "FIT_RGBA32" -> UInt(32, RgbBuilders(hist, stride))
          [] type = "FIT_RGB32" -> UInt(32, RgbBuilders(hist, stride))
          [] type = "FIT_RGBA16" -> UInt(16, RgbBuilders(hist, stride))
          [] type = "FIT_RGB16" -> UInt(16, RgbBuilders(hist, stride))
          [] type = "FIT_UINT32" -> UInt(32, IdentityBuilders(hist, stride))
          [] type = "FIT_INT32" -> SInt(32, IdentityBuilders(hist, stride))
          [] type = "FIT_UINT16" -> UInt(16, IdentityBuilders(hist, stride))
          [] type = "FIT_INT16" -> SInt(16, IdentityBuilders(hist, stride))
          [] OTHER -> failed

\* FreeImage_MakeHistogram without the test of the strides
MakeHistogram_AnyStride(mem, out, dib, scan_ok, binsNumber, outMinVal, outMaxVal, hist, stride) ==
    IF ~FreeImage_HasPixels(dib) \/ binsNumber < 1
    THEN [ret |-> FALSE, mem |-> mem, out |-> out]
    ELSE IF \A k \in 1..4 : hist[k] = NULLHIST
    THEN [ret |-> TRUE, mem |-> mem, out |-> out]
    ELSE MakeHistogram_switch(mem, out, dib, scan_ok, binsNumber, outMinVal, outMaxVal,
                              hist, stride)

\* FreeImage_MakeHistogram on the caller's storage mem and the caller's
\* variables out: hist = <<histR, histG, histB, histL>> and stride likewise,
\* outMinVal and outMaxVal tell whether the pointer is non-null, scan_ok
\* whether FreeImage_FindMinMaxValue succeeds. The result, the storage and the
\* variables afterwards.
MakeHistogram(mem, out, dib, scan_ok, binsNumber, outMinVal, outMaxVal, hist, stride) ==
    LET histR == hist[1]
        histG == hist[2]
        histB == hist[3]
        histL == hist[4]
        strideR == stride[1]
        strideG == stride[2]
        strideB == stride[3]
        strideL == stride[4]
    IN  IF ~FreeImage_HasPixels(dib) \/ binsNumber < 1
        THEN [ret |-> FALSE, mem |-> mem, out |-> out]
        ELSE IF \/ (histR # NULLHIST /\ strideR <= 0)
                \/ (histG # NULLHIST /\ strideG <= 0)
                \/ (histB # NULLHIST /\ strideB <= 0)
                \/ (histL # NULLHIST /\ strideL <= 0)
        THEN [ret |-> FALSE, mem |-> mem, out |-> out]
        ELSE IF histR = NULLHIST /\ histG = NULLHIST /\ histB = NULLHIST /\ histL = NULLHIST
        THEN [ret |-> TRUE, mem |-> mem, out |-> out]
        ELSE MakeHistogram_switch(mem, out, dib, scan_ok, binsNumber, outMinVal,
                                  outMaxVal, hist, stride)

-----------------------------------------------------------------------------
(* The histogram calls explored *)

\* pixels of a bitmap
MaxPixels == 2
\* bins of a request, besides the 256 bins of a byte
MaxBins == 2

\* a byte, a 16 bit and a 32 bit channel value
U8(n) == <<n>>
U16(lo, hi) == <<lo, hi>>
U32(b0, b1, b2, b3) == <<b0, b1, b2, b3>>
\* a float or double channel value
Real(n) == <<n>>

\* The pixel encodings explored: the image type, the bits of a pixel, the
\* colour classification, and pixels of the encoding
Encoding(type, bpp, colorType, samples) ==
    [type |-> type, bpp |-> bpp, colorType |-> colorType, samples |-> samples]

EncodingInputs ==
    { Encoding("FIT_BITMAP", 8, "FIC_MINISBLACK",
               {<<U8(0)>>, <<U8(1)>>, <<U8(128)>>, <<U8(255)>>}),
      Encoding("FIT_BITMAP", 8, "FIC_PALETTE", {<<U8(1)>>}),
      Encoding("FIT_BITMAP", 24, "FIC_RGB",
               {<<U8(0), U8(0), U8(0)>>, <<U8(255), U8(0), U8(128)>>}),
      Encoding("FIT_BITMAP", 24, "FIC_YUV", {<<U8(16), U8(128), U8(128)>>}),
      Encoding("FIT_BITMAP", 32, "FIC_RGBALPHA",
               {<<U8(255), U8(255), U8(255), U8(0)>>, <<U8(10), U8(200), U8(30), U8(255)>>}),
      Encoding("FIT_BITMAP", 32, "FIC_RGB", {<<U8(10), U8(200), U8(30), U8(255)>>}),
      Encoding("FIT_UINT16", 16, "FIC_MINISBLACK", {<<U16(0, 0)>>, <<U16(255, 255)>>}),
      Encoding("FIT_INT16", 16, "FIC_MINISBLACK", {<<U16(0, 128)>>, <<U16(255, 127)>>}),
      Encoding("FIT_UINT32", 32, "FIC_MINISBLACK",
               {<<U32(0, 0, 0, 0)>>, <<U32(255, 255, 255, 255)>>}),
      Encoding("FIT_INT32", 32, "FIC_MINISBLACK",
               {<<U32(0, 0, 0, 128)>>, <<U32(255, 255, 255, 127)>>}),
      Encoding("FIT_FLOAT", 32, "FIC_MINISBLACK", {<<Real(-1)>>, <<Real(2)>>}),
      Encoding("FIT_DOUBLE", 64, "FIC_MINISBLACK", {<<Real(3)>>}),
      Encoding("FIT_COMPLEX", 128, "FIC_MINISBLACK",
               {<<Real(0), Real(0)>>, <<Real(3), Real(4)>>}),
      Encoding("FIT_COMPLEXF", 64, "FIC_MINISBLACK", {<<Real(-4), Real(0)>>}),
      Encoding("FIT_RGB16", 48, "FIC_RGB", {<<U16(0, 0), U16(0, 128), U16(255, 255)>>}),
      Encoding("FIT_RGBA16", 64, "FIC_RGBALPHA",
               {<<U16(1, 0), U16(0, 128), U16(255, 255), U16(0, 0)>>}),
      Encoding("FIT_RGB32", 96, "FIC_RGB",
               {<<U32(0, 0, 0, 0), U32(0, 0, 0, 128), U32(255, 255, 255, 255)>>}),
      Encoding("FIT_RGBA32", 128, "FIC_RGBALPHA",
               {<<U32(255, 255, 255, 255), U32(255, 255, 255, 255),
                  U32(255, 255, 255, 255), U32(0, 0, 0, 0)>>}),
      Encoding("FIT_RGBF", 96, "FIC_RGB",
               {<<Real(0), Real(0), Real(0)>>, <<Real(10000), Real(0), Real(-10000)>>}),
      Encoding("FIT_RGBAF", 128, "FIC_RGBALPHA",
               {<<Real(0), Real(20000), Real(0), Real(50000)>>,
                <<Real(7), Real(7), Real(7), Real(7)>>}),
      Encoding("FIT_UNKNOWN", 8, "FIC_MINISBLACK", {<<U8(0)>>}) }

\* The bitmaps of an encoding: up to MaxPixels pixels, in one row when their
\* number is odd and in two rows when it is even, and the bitmap without pixels
\* (header only)
BitmapsOf(e) ==
    { Bitmap(TRUE, e.type, e.bpp, e.colorType,
             IF Len(pixels) % 2 = 0 THEN Len(pixels) \div 2 ELSE Len(pixels),
             IF Len(pixels) % 2 = 0 THEN 2 ELSE 1, pixels) :
          pixels \in UNION {[1..n -> e.samples] : n \in 1..MaxPixels} }
    \cup { Bitmap(FALSE, e.type, e.bpp, e.colorType, 1, 1, <<>>) }

\* bin counts of a request
BinsInputs == 0..MaxBins \cup {256}

\* The caller's buffer of channel k (1 red, 2 green, 3 blue, 4 brightness): the
\* buffers lie one after the other, a counter apart, each with room for MaxBins
\* counters two apart
Base(k) == 2 + (k - 1) * 2 * MaxBins

\* The request with the buffers of the channels present, with their strides
Request(present, stride) ==
    <<[k \in 1..4 |-> IF k \in present THEN Base(k) ELSE NULLHIST],
      [k \in 1..4 |-> IF k \in present THEN stride[k] ELSE 0]>>

\* The pointers and strides of a request, <<hist, stride>>: any of the buffers
\* with stride 1 or with stride 2 (an absent buffer with stride 0), the four
\* buffers with unlike strides, and one buffer with stride 0, alone or beside
\* the others
RequestInputs ==
    { Request(present, [k \in 1..4 |-> s]) : present \in SUBSET (1..4), s \in {1, 2} }
    \cup { Request(1..4, <<1, 2, 2, 1>>), Request(1..4, <<2, 1, 1, 2>>) }
    \cup UNION { { Request(present, [k \in 1..4 |-> IF k = z THEN 0 ELSE 1]) :
                       present \in {{z}, 1..4} } : z \in 1..4 }

\* outMinVal and outMaxVal of a request: whether the pointer is non-null
OutInputs == {<<FALSE, FALSE>>, <<TRUE, TRUE>>}

\* The counters of a buffer
Slots(hist, stride, binsNumber) ==
    IF hist = NULLHIST \/ stride = 0 THEN {}
    ELSE {hist + i * stride : i \in 0..(binsNumber - 1)}

\* Counters of the storage the caller makes a request of binsNumber bins on:
\* room for the four buffers, or for one buffer of more than MaxBins counters,
\* and a counter before and after
MemLen(binsNumber) ==
    IF binsNumber <= MaxBins THEN Base(4) + 2 * MaxBins ELSE binsNumber + 2

\* The caller's storage before a call
Storage(binsNumber) == [a \in 1..MemLen(binsNumber) |-> Stale]

\* The caller's buffers hold binsNumber counters each, lie within its storage
\* and share no counter
Fits(binsNumber, hist, stride) ==
    /\ \A k \in 1..4 : Slots(hist[k], stride[k], binsNumber)
                            \subseteq 2..(MemLen(binsNumber) - 1)
    /\ \A j, k \in 1..4 :
          j # k => Slots(hist[j], stride[j], binsNumber)
                   \cap Slots(hist[k], stride[k], binsNumber) = {}

\* image types with a range that the bitmap is scanned for
FloatingTypes ==
    {"FIT_RGBF", "FIT_RGBAF", "FIT_COMPLEX", "FIT_COMPLEXF", "FIT_DOUBLE", "FIT_FLOAT"}

\* no call of FreeImage_MakeHistogram made
NoHistogram == [op |-> "none"]

\* the caller holds no bitmap; its table is not filled
NoBitmap == [type |-> "none"]
NoTable == <<>>

-----------------------------------------------------------------------------
(* Lookup tables and curves *)

RECURSIVE GCD(_, _)
GCD(a, b) == IF b = 0 THEN a ELSE GCD(b, a % b)

\* A double of the table computation: the fraction num / den that the
\* arithmetic yields on real numbers, in lowest terms, and whether the double
\* holds exactly that number (a rounding error, if any, is far smaller than any
\* distance between two such fractions)
Double(num, den, exact) ==
    LET g == GCD(IF num < 0 THEN -num ELSE num, den)
    IN  [num |-> num \div g, den |-> den \div g, exact |-> exact]

\* MAX(0.0, MIN(value, 255.0))
MaxMin(value) ==
    IF value.num > 255 * value.den THEN Double(255, 1, TRUE)
    ELSE IF value.num < 0 THEN Double(0, 1, TRUE)
    ELSE value

\* (100.0 + percentage) / 100.0 is a double without rounding error: a multiple
\* of 1/4
ExactScale(percentage) == (100 + percentage) % 25 = 0

\* value = 128 + (dblLUT[i] - 128) * v with v = (100.0 + contrast) / 100.0,
\* then MAX(0.0, MIN(value, 255.0))
ContrastAdjustment(x, contrast) ==
    MaxMin(Double(128 * x.den * 100 + (x.num - 128 * x.den) * (100 + contrast),
                  x.den * 100, x.exact /\ ExactScale(contrast)))

\* value = dblLUT[i] * v with v = (100.0 + brightness) / 100.0, then
\* MAX(0.0, MIN(value, 255.0))
BrightnessAdjustment(x, brightness) ==
    MaxMin(Double(x.num * (100 + brightness), x.den * 100,
                  x.exact /\ ExactScale(brightness)))

RECURSIVE Power(_, _)
Power(n, e) == IF e = 0 THEN 1 ELSE n * Power(n, e - 1)

\* value = pow(dblLUT[i], exponent) * v with exponent = 1 / gamma and
\* v = 255.0 * pow(255, -exponent), then MAX(0.0, MIN(value, 255.0)), for a
\* gamma = <<1, q>>, that is 1/q, whose exponent is the whole number q
GammaAdjustment(x, gamma) ==
    LET exponent == gamma[2]
    IN  MaxMin(Double(Power(x.num, exponent),
                      Power(x.den, exponent) * Power(255, exponent - 1), FALSE))

\* gamma > 0 and gamma != 1.0, for gamma = <<p, q>>, the number p/q in lowest
\* terms
GammaPositive(gamma) == gamma[1] > 0
GammaIsOne(gamma) == gamma = <<1, 1>>

\* floor(value + 0.5) for a value in 0..255
FloorOfHalfAdded(value) == (2 * value.num + value.den) \div (2 * value.den)

\* dblLUT[i] with the brightness adjustment made first and rounded to a byte
\* before the contrast adjustment
dblLUT_BrightnessRoundedFirst(i, brightness, contrast, gamma) ==
    LET blind == Double(i, 1, TRUE)
        brightened == IF brightness # 0
                      THEN Double(FloorOfHalfAdded(BrightnessAdjustment(blind, brightness)),
                                  1, TRUE)
                      ELSE blind
        contrasted == IF contrast # 0 THEN ContrastAdjustment(brightened, contrast)
                      ELSE brightened
    IN  IF GammaPositive(gamma) /\ ~GammaIsOne(gamma)
        THEN GammaAdjustment(contrasted, gamma)
        ELSE contrasted

\* dblLUT[i] of FreeImage_GetAdjustColorsLookupTable past the contrast, the
\* brightness and the gamma adjustment
dblLUT(i, brightness, contrast, gamma) ==
    LET blind == Double(i, 1, TRUE)
        contrasted == IF contrast # 0 THEN ContrastAdjustment(blind, contrast) ELSE blind
        brightened == IF brightness # 0 THEN BrightnessAdjustment(contrasted, brightness)
                      ELSE contrasted
    IN  IF GammaPositive(gamma) /\ ~GammaIsOne(gamma)
        THEN GammaAdjustment(brightened, gamma)
        ELSE brightened

\* value + 0.5 is a whole number on real numbers while the double carries a
\* rounding error: floor(value + 0.5) is that number or the one below,
\* whichever way the error of the build's arithmetic falls
Tie(value) == ~value.exact /\ (2 * value.num + value.den) % (2 * value.den) = 0

\* (uint8_t)floor(value + 0.5), the error of a tie falling below it when down is
\* set
Byte(value, down) == FloorOfHalfAdded(value) - (IF Tie(value) /\ down THEN 1 ELSE 0)

\* The bytes at which the table of the arguments has a tie
TieBytes(brightness, contrast, gamma) ==
    {i \in 0..255 : Tie(dblLUT(i, brightness, contrast, gamma))}

\* result of GetAdjustColorsLookupTable counting the invert adjustment twice
GetAdjustColorsLookupTable_InvertTwice(brightness, contrast, gamma, invert, down) ==
    [LUT |-> [i \in 0..255 |->
                 LET b == Byte(dblLUT(i, brightness, contrast, gamma), i \in down)
                 IN  IF invert THEN 255 - b ELSE b],
     result |-> (IF contrast # 0 THEN 1 ELSE 0) + (IF brightness # 0 THEN 1 ELSE 0)
                + (IF GammaPositive(gamma) /\ ~GammaIsOne(gamma) THEN 1 ELSE 0)
                + (IF invert THEN 2 ELSE 0)]

\* FreeImage_GetAdjustColorsLookupTable(LUT, brightness, contrast, gamma,
\* invert): the table and the number of adjustments; down holds the bytes whose
\* tie falls below
GetAdjustColorsLookupTable(brightness, contrast, gamma, invert, down) ==
    IF brightness = 0 /\ contrast = 0 /\ GammaIsOne(gamma) /\ ~invert
    THEN [LUT |-> [i \in 0..255 |-> i], result |-> 0]
    ELSE [LUT |-> [i \in 0..255 |->
                      LET b == Byte(dblLUT(i, brightness, contrast, gamma), i \in down)
                      IN  IF invert THEN 255 - b ELSE b],
          result |-> (IF contrast # 0 THEN 1 ELSE 0) + (IF brightness # 0 THEN 1 ELSE 0)
                     + (IF GammaPositive(gamma) /\ ~GammaIsOne(gamma) THEN 1 ELSE 0)
                     + (IF invert THEN 1 ELSE 0)]

\* A bitmap of the classic encodings with its palette: a palette entry has
\* red, green, blue and alpha, a pixel of 8 bits or less has index (its byte),
\* one of 24 bits red, green and blue, one of 32 bits alpha as well
Dib(has_pixels, type, bpp, colorType, palette, pixels) ==
    [has_pixels |-> has_pixels, type |-> type, bpp |-> bpp, colorType |-> colorType,
     palette |-> palette, pixels |-> pixels]
FreeImage_GetColorType(dib) == dib.colorType

\* a null uint8_t* LUT
NULLLUT == NoTable

\* bits[c] = LUT[bits[c]] on every pixel, for the channels cs
MapPixels(src, table, cs) ==
    [src EXCEPT !.pixels =
        [n \in DOMAIN src.pixels |->
            [c \in DOMAIN src.pixels[n] |->
                IF c \in cs THEN table[src.pixels[n][c]] ELSE src.pixels[n][c]]]]

\* rgb->red = LUT[rgb->red], green and blue likewise, on every palette entry
MapPalette(src, table) ==
    [src EXCEPT !.palette =
        [n \in DOMAIN src.palette |->
            [c \in DOMAIN src.palette[n] |->
                IF c \in {"red", "green", "blue"} THEN table[src.palette[n][c]]
                ELSE src.palette[n][c]]]]

\* FreeImage_AdjustCurve with FICC_RGB mapping the alpha channel as well
AdjustCurve_AlphaWithRgb(src, table, channel) ==
    IF ~FreeImage_HasPixels(src) \/ table = NULLLUT
       \/ FreeImage_GetImageType(src) # "FIT_BITMAP"
    THEN [ret |-> FALSE, dib |-> src]
    ELSE IF FreeImage_GetBPP(src) # 8 /\ FreeImage_GetBPP(src) # 24
            /\ FreeImage_GetBPP(src) # 32
    THEN [ret |-> FALSE, dib |-> src]
    ELSE IF FreeImage_GetBPP(src) = 8
    THEN IF FreeImage_GetColorType(src) = "FIC_PALETTE"
         THEN [ret |-> TRUE, dib |-> MapPalette(src, table)]
         ELSE [ret |-> TRUE, dib |-> MapPixels(src, table, {"index"})]
    ELSE [ret |-> TRUE,
          dib |-> CASE channel = "FICC_RGB" ->
                           MapPixels(src, table, {"blue", "green", "red", "alpha"})
                    [] channel = "FICC_BLUE" -> MapPixels(src, table, {"blue"})
                    [] channel = "FICC_GREEN" -> MapPixels(src, table, {"green"})
                    [] channel = "FICC_RED" -> MapPixels(src, table, {"red"})
                    [] channel = "FICC_ALPHA" ->
                           IF FreeImage_GetBPP(src) = 32
                           THEN MapPixels(src, table, {"alpha"})
                           ELSE src
                    [] OTHER -> src]

\* FreeImage_AdjustCurve(src, LUT, channel): the result and the bitmap
\* afterwards
AdjustCurve(src, table, channel) ==
    IF ~FreeImage_HasPixels(src) \/ table = NULLLUT
       \/ FreeImage_GetImageType(src) # "FIT_BITMAP"
    THEN [ret |-> FALSE, dib |-> src]
    ELSE IF FreeImage_GetBPP(src) # 8 /\ FreeImage_GetBPP(src) # 24
            /\ FreeImage_GetBPP(src) # 32
    THEN [ret |-> FALSE, dib |-> src]
    ELSE IF FreeImage_GetBPP(src) = 8
    THEN IF FreeImage_GetColorType(src) = "FIC_PALETTE"
         THEN [ret |-> TRUE, dib |-> MapPalette(src, table)]
         ELSE [ret |-> TRUE, dib |-> MapPixels(src, table, {"index"})]
    ELSE [ret |-> TRUE,
          dib |-> CASE channel = "FICC_RGB" ->
                           MapPixels(src, table, {"blue", "green", "red"})
                    [] channel = "FICC_BLUE" -> MapPixels(src, table, {"blue"})
                    [] channel = "FICC_GREEN" -> MapPixels(src, table, {"green"})
                    [] channel = "FICC_RED" -> MapPixels(src, table, {"red"})
                    [] channel = "FICC_ALPHA" ->
                           IF FreeImage_GetBPP(src) = 32
                           THEN MapPixels(src, table, {"alpha"})
                           ELSE src
                    [] OTHER -> src]

\* The table FreeImage_AdjustBrightness builds: i * scale with
\* scale = (100 + percentage) / 100, MAX(0.0, MIN(value, 255.0)),
\* (uint8_t)floor(value + 0.5)
BrightnessTable(percentage, down) ==
    [i \in 0..255 |-> Byte(BrightnessAdjustment(Double(i, 1, TRUE), percentage),
                           i \in down)]

\* The table FreeImage_AdjustContrast builds: 128 + (i - 128) * scale
ContrastTable(percentage, down) ==
    [i \in 0..255 |-> Byte(ContrastAdjustment(Double(i, 1, TRUE), percentage),
                           i \in down)]

\* FreeImage_AdjustBrightness(src, percentage)
AdjustBrightness(src, percentage, down) ==
    IF ~FreeImage_HasPixels(src)
    THEN [ret |-> FALSE, dib |-> src]
    ELSE AdjustCurve(src, BrightnessTable(percentage, down), "FICC_RGB")

\* FreeImage_AdjustContrast(src, percentage)
AdjustContrast(src, percentage, down) ==
    IF ~FreeImage_HasPixels(src)
    THEN [ret |-> FALSE, dib |-> src]
    ELSE AdjustCurve(src, ContrastTable(percentage, down), "FICC_RGB")

\* FreeImage_AdjustColors(dib, brightness, contrast, gamma, invert)
AdjustColors(dib, brightness, contrast, gamma, invert, down) ==
    IF ~FreeImage_HasPixels(dib) \/ FreeImage_GetImageType(dib) # "FIT_BITMAP"
    THEN [ret |-> FALSE, dib |-> dib]
    ELSE LET bpp == FreeImage_GetBPP(dib)
             table == GetAdjustColorsLookupTable(brightness, contrast, gamma, invert, down)
         IN  IF bpp # 8 /\ bpp # 24 /\ bpp # 32
             THEN [ret |-> FALSE, dib |-> dib]
             ELSE IF table.result # 0
             THEN AdjustCurve(dib, table.LUT, "FICC_RGB")
             ELSE [ret |-> FALSE, dib |-> dib]

-----------------------------------------------------------------------------
(* Initialisation and teardown *)

Init ==
    /\ s_plugins = NullList
    /\ s_plugin_reference_count = 0
    /\ crashed = FALSE
    /\ call = NoCall
    /\ calls_made = <<>>
    /\ handle_pos = 0
    /\ constructions = "never"
    /\ libraries = <<>>
    /\ memory = <<>>
    /\ outVal = [min |-> Unwritten, max |-> Unwritten]
    /\ made = NoHistogram
    /\ image = NoBitmap
    /\ LUT = NoTable

\* FreeImage_Initialise on the counter count and the list pointer list: the
\* counter and the pointer afterwards (local plugins only; the directory scan
\* for external plugins is compiled on Windows alone)
Initialise(count, list) ==
    [count |-> count + 1,
     list |-> IF count = 0 THEN List(AddBuiltins(EmptyMap, 1)) ELSE list]

FreeImage_Initialise ==
    /\ Ready
    /\ s_plugin_reference_count < MaxRef
    /\ LET r == Initialise(s_plugin_reference_count, s_plugins)
       IN  /\ s_plugin_reference_count' = r.count
           /\ s_plugins' = r.list
    /\ call' = Call("Initialise", FIF_UNKNOWN, NULLPROC, NULLSTR, FALSE, 0, FALSE)
    /\ calls_made' = <<>>
    /\ constructions' = IF s_plugins.null /\ ~s_plugins'.null
                        THEN (IF constructions = "never" THEN "once" ELSE "again")
                        ELSE constructions
    /\ UNCHANGED <<crashed, handle_pos, libraries, memory, outVal, made, image, LUT>>

\* Windows build: a plugin file as LoadLibrary and GetProcAddress see it.
\*   loads  LoadLibrary returns a module
\*   proc   what GetProcAddress(instance, "_Init@8") returns
PluginFile(loads, proc) == [loads |-> loads, proc |-> proc]
FileInputs ==
    {PluginFile(FALSE, NULLPROC), PluginFile(TRUE, NULLPROC), PluginFile(TRUE, "InitFull"),
     PluginFile(TRUE, "InitNoName"), PluginFile(TRUE, "InitThrows")}
FoundInputs ==
    UNION {[1..n -> FileInputs] : n \in 0..MaxFound}

\* Windows build: the loop of FreeImage_Initialise over the plugin files found
\* in the directories of s_search_list, on the map m and the modules libs
RECURSIVE SearchForPlugins(_, _, _)
SearchForPlugins(m, libs, found) ==
    IF found = <<>> THEN [map |-> m, libs |-> libs]
    ELSE IF ~Head(found).loads THEN SearchForPlugins(m, libs, Tail(found))
    ELSE LET loaded == LoadLibrary(libs)
             proc_address == Head(found).proc
         IN  IF proc_address # NULLPROC
             THEN SearchForPlugins(
                      AddNode(m, proc_address, loaded.instance, NULLSTR, NULLSTR).map,
                      loaded.libs, Tail(found))
             ELSE SearchForPlugins(m, FreeLibrary(loaded.libs, loaded.instance),
                                   Tail(found))

\* Windows build: FreeImage_Initialise(load_local_plugins_only) when the
\* directories hold the plugin files found
Initialise_WIN32(count, list, libs, load_local_plugins_only, found) ==
    LET local == Initialise(count, list)
        searched == SearchForPlugins(local.list.m_plugin_map, libs, found)
    IN  IF count = 0 /\ ~load_local_plugins_only
        THEN [count |-> local.count, list |-> List(searched.map), libs |-> searched.libs]
        ELSE [count |-> local.count, list |-> local.list, libs |-> libs]

FreeImage_Initialise_WIN32(load_local_plugins_only, found) ==
    /\ Ready
    /\ s_plugin_reference_count < MaxRef
    /\ Len(libraries) + Len(found) <= MaxModules
    /\ LET r == Initialise_WIN32(s_plugin_reference_count, s_plugins, libraries,
                                 load_local_plugins_only, found)
       IN  /\ s_plugin_reference_count' = r.count
           /\ s_plugins' = r.list
           /\ libraries' = r.libs
    /\ call' = Call("Initialise", FIF_UNKNOWN, NULLPROC, NULLSTR, load_local_plugins_only,
                    0, FALSE)
    /\ calls_made' = <<>>
    /\ constructions' = IF s_plugins.null /\ ~s_plugins'.null
                        THEN (IF constructions = "never" THEN "once" ELSE "again")
                        ELSE constructions
    /\ UNCHANGED <<crashed, handle_pos, memory, outVal, made, image, LUT>>

\* FreeImage_DeInitialise destroying the catalog on every call
DeInitialise_DestroysAlways(count, list) ==
    [count |-> count - 1, list |-> NullList]

\* FreeImage_DeInitialise on the counter and the list pointer
DeInitialise(count, list) ==
    [count |-> count - 1,
     list |-> IF count - 1 = 0 THEN NullList ELSE list]

FreeImage_DeInitialise ==
    /\ Ready
    /\ s_plugin_reference_count > -MaxUnder
    /\ LET r == DeInitialise(s_plugin_reference_count, s_plugins)
       IN  /\ s_plugin_reference_count' = r.count
           /\ s_plugins' = r.list
           /\ libraries' = IF ~s_plugins.null /\ r.list.null
                           THEN DestroyPluginList(s_plugins.m_plugin_map, libraries)
                           ELSE libraries
    /\ call' = Call("DeInitialise", FIF_UNKNOWN, NULLPROC, NULLSTR, FALSE, 0, FALSE)
    /\ calls_made' = <<>>
    /\ UNCHANGED <<crashed, handle_pos, constructions, memory, outVal, made, image, LUT>>

-----------------------------------------------------------------------------
(* Registration, enabling and disabling *)

\* FreeImage_RegisterLocalPlugin.  s_plugins is dereferenced unchecked: on a
\* null s_plugins AddNode returns FIF_UNKNOWN for a null proc_address (it
\* touches no member) and otherwise reads a member of a null object, which
\* ends the process or is swallowed by AddNode's catch (...).
FreeImage_RegisterLocalPlugin(proc_address, format, extension) ==
    /\ Ready
    /\ FreeImage_GetFIFCount < NumBuiltins + MaxExtra
    /\ calls_made' = <<>>
    /\ UNCHANGED <<s_plugin_reference_count, handle_pos, constructions, libraries, memory, outVal, made, image, LUT>>
    /\ IF s_plugins.null
       THEN /\ UNCHANGED s_plugins
            /\ call' = Call("Register", FIF_UNKNOWN, proc_address, format, FALSE, FIF_UNKNOWN, FALSE)
            /\ \/ crashed' = FALSE
               \/ proc_address # NULLPROC /\ crashed' = TRUE
       ELSE LET r == AddNode(s_plugins.m_plugin_map, proc_address, 0, format, extension)
            IN  /\ s_plugins' = List(r.map)
                /\ call' = Call("Register", FIF_UNKNOWN, proc_address, format, FALSE, r.ret, FALSE)
                /\ UNCHANGED crashed

\* Windows build: FreeImage_RegisterExternalPlugin(path, format, ...) on the map
\* m and the modules libs, path naming the plugin file file (path_given: path
\* is not a null pointer)
RegisterExternalPlugin(m, libs, path_given, file, format, extension) ==
    IF path_given /\ file.loads
    THEN LET loaded == LoadLibrary(libs)
             added == AddNode(m, file.proc, loaded.instance, format, extension)
         IN  [map |-> added.map,
              libs |-> IF added.ret = FIF_UNKNOWN
                       THEN FreeLibrary(loaded.libs, loaded.instance)
                       ELSE loaded.libs,
              ret |-> added.ret]
    ELSE [map |-> m, libs |-> libs, ret |-> FIF_UNKNOWN]

\* s_plugins is dereferenced unchecked, as in FreeImage_RegisterLocalPlugin: on
\* a null s_plugins a non-null entry point makes AddNode read a member of a
\* null object, which ends the process or is swallowed by its catch (...)
FreeImage_RegisterExternalPlugin(path_given, file, format, extension) ==
    /\ Ready
    /\ FreeImage_GetFIFCount < NumBuiltins + MaxExtra
    /\ Len(libraries) < MaxModules
    /\ calls_made' = <<>>
    /\ UNCHANGED <<s_plugin_reference_count, handle_pos, constructions, memory, outVal, made, image, LUT>>
    /\ IF s_plugins.null
       THEN LET r == RegisterExternalPlugin(EmptyMap, libraries, path_given, file,
                                            format, extension)
                faults == path_given /\ file.loads /\ file.proc # NULLPROC
            IN  /\ UNCHANGED s_plugins
                /\ call' = Call("RegisterExternal", FIF_UNKNOWN, file.proc, format,
                                path_given /\ file.loads, FIF_UNKNOWN, FALSE)
                /\ \/ /\ crashed' = FALSE
                      /\ libraries' = IF faults
                                      THEN FreeLibrary(LoadLibrary(libraries).libs,
                                                       LoadLibrary(libraries).instance)
                                      ELSE r.libs
                   \/ /\ faults
                      /\ crashed' = TRUE
                      /\ libraries' = LoadLibrary(libraries).libs
       ELSE LET r == RegisterExternalPlugin(s_plugins.m_plugin_map, libraries, path_given,
                                            file, format, extension)
            IN  /\ s_plugins' = List(r.map)
                /\ libraries' = r.libs
                /\ call' = Call("RegisterExternal", FIF_UNKNOWN, file.proc, format,
                                path_given /\ file.loads, r.ret, FALSE)
                /\ UNCHANGED crashed

\* FreeImage_SetPluginEnabled returning the state it sets
SetPluginEnabled_ReturnsNew(fif, enable) ==
    LET node == IF s_plugins.null THEN NULLNODE
                ELSE FindNodeFromFIF(s_plugins.m_plugin_map, fif)
    IN  IF node # NULLNODE
        THEN [list |-> List([s_plugins.m_plugin_map EXCEPT ![fif].m_enabled = enable]),
              ret |-> BoolToInt(enable)]
        ELSE [list |-> s_plugins, ret |-> -1]

\* FreeImage_SetPluginEnabled: the list afterwards and the value returned
SetPluginEnabled(fif, enable) ==
    LET node == IF s_plugins.null THEN NULLNODE
                ELSE FindNodeFromFIF(s_plugins.m_plugin_map, fif)
    IN  IF node # NULLNODE
        THEN [list |-> List([s_plugins.m_plugin_map EXCEPT ![fif].m_enabled = enable]),
              ret |-> BoolToInt(node.m_enabled)]
        ELSE [list |-> s_plugins, ret |-> -1]

FreeImage_SetPluginEnabled(fif, enable) ==
    /\ Ready
    /\ LET r == SetPluginEnabled(fif, enable)
       IN  /\ s_plugins' = r.list
           /\ call' = Call("SetPluginEnabled", fif, NULLPROC, NULLSTR, enable, r.ret, FALSE)
    /\ calls_made' = <<>>
    /\ UNCHANGED <<s_plugin_reference_count, crashed, handle_pos, constructions, libraries, memory, outVal, made, image, LUT>>

\* FreeImage_IsPluginEnabled
FreeImage_IsPluginEnabled(fif) ==
    IF ~s_plugins.null
    THEN LET node == FindNodeFromFIF(s_plugins.m_plugin_map, fif)
         IN  IF node # NULLNODE THEN BoolToInt(node.m_enabled) ELSE 0
    ELSE -1

-----------------------------------------------------------------------------
(* Load and save dispatch *)

\* FreeImage_Open: the session data, and the call made
OpenData(node, data) == IF node.m_plugin.open_proc THEN data ELSE 0
OpenMade(node, data, open_for_reading) ==
    IF node.m_plugin.open_proc
    THEN <<Made("open_proc", 0, open_for_reading, data, FALSE)>>
    ELSE <<>>

\* FreeImage_Close: the call made
CloseMade(node, data) ==
    IF node.m_plugin.close_proc THEN <<Made("close_proc", data, FALSE, 0, FALSE)>> ELSE <<>>

\* FreeImage_LoadFromHandle passing over a disabled plugin
LoadFromHandle_EnabledOnly(fif, open_data, outcome, bitmap) ==
    LET none == [ret |-> 0, raised |-> FALSE, made |-> <<>>]
    IN  IF fif >= 0 /\ fif < FreeImage_GetFIFCount
        THEN LET node == FindNodeFromFIF(s_plugins.m_plugin_map, fif)
                 found == <<Made("FindNodeFromFIF", fif, FALSE, 0, FALSE)>>
             IN  IF node # NULLNODE /\ node.m_enabled /\ node.m_plugin.load_proc
                 THEN LET data == OpenData(node, open_data)
                          opened == found \o OpenMade(node, open_data, TRUE)
                          result == IF outcome = "ok" THEN bitmap ELSE 0
                      IN  IF outcome = "throw"
                          THEN [ret |-> 0, raised |-> TRUE,
                                made |-> opened \o <<Made("load_proc", data, FALSE, 0, TRUE)>>]
                          ELSE [ret |-> result, raised |-> FALSE,
                                made |-> opened
                                         \o <<Made("load_proc", data, FALSE, result, FALSE)>>
                                         \o CloseMade(node, data)]
                 ELSE [none EXCEPT !.made = found]
        ELSE none

\* FreeImage_LoadFromHandle closing the session only after a successful load
LoadFromHandle_ClosesOnSuccess(fif, open_data, outcome, bitmap) ==
    LET none == [ret |-> 0, raised |-> FALSE, made |-> <<>>]
    IN  IF fif >= 0 /\ fif < FreeImage_GetFIFCount
        THEN LET node == FindNodeFromFIF(s_plugins.m_plugin_map, fif)
                 found == <<Made("FindNodeFromFIF", fif, FALSE, 0, FALSE)>>
             IN  IF node # NULLNODE /\ node.m_plugin.load_proc
                 THEN LET data == OpenData(node, open_data)
                          opened == found \o OpenMade(node, open_data, TRUE)
                          result == IF outcome = "ok" THEN bitmap ELSE 0
                      IN  IF outcome = "throw"
                          THEN [ret |-> 0, raised |-> TRUE,
                                made |-> opened \o <<Made("load_proc", data, FALSE, 0, TRUE)>>]
                          ELSE [ret |-> result, raised |-> FALSE,
                                made |-> opened
                                         \o <<Made("load_proc", data, FALSE, result, FALSE)>>
                                         \o (IF result # 0 THEN CloseMade(node, data)
                                             ELSE <<>>)]
                 ELSE [none EXCEPT !.made = found]
        ELSE none

\* FreeImage_LoadFromHandle: what it returns, whether the load hook's
\* exception leaves it, and the calls it makes.  open_data is what the open
\* hook would return, outcome and bitmap how the load hook ends.
LoadFromHandle(fif, open_data, outcome, bitmap) ==
    LET none == [ret |-> 0, raised |-> FALSE, made |-> <<>>]
    IN  IF fif >= 0 /\ fif < FreeImage_GetFIFCount
        THEN LET node == FindNodeFromFIF(s_plugins.m_plugin_map, fif)
                 found == <<Made("FindNodeFromFIF", fif, FALSE, 0, FALSE)>>
             IN  IF node # NULLNODE /\ node.m_plugin.load_proc
                 THEN LET data == OpenData(node, open_data)
                          opened == found \o OpenMade(node, open_data, TRUE)
                          result == IF outcome = "ok" THEN bitmap ELSE 0
                      IN  IF outcome = "throw"
                          THEN [ret |-> 0, raised |-> TRUE,
                                made |-> opened \o <<Made("load_proc", data, FALSE, 0, TRUE)>>]
                          ELSE [ret |-> result, raised |-> FALSE,
                                made |-> opened
                                         \o <<Made("load_proc", data, FALSE, result, FALSE)>>
                                         \o CloseMade(node, data)]
                 ELSE [none EXCEPT !.made = found]
        ELSE none

\* The load hook, when it runs, reads the stream and leaves it at moved_to
FreeImage_LoadFromHandle(fif, open_data, outcome, moved_to) ==
    /\ Ready
    /\ LET r == LoadFromHandle(fif, open_data, outcome, 1)
       IN  /\ call' = Call("Load", fif, NULLPROC, NULLSTR, FALSE, r.ret, r.raised)
           /\ calls_made' = r.made
           /\ handle_pos' = IF \E i \in DOMAIN r.made : r.made[i].what = "load_proc"
                            THEN moved_to ELSE handle_pos
    /\ UNCHANGED <<s_plugins, s_plugin_reference_count, crashed, constructions, libraries, memory, outVal, made, image, LUT>>

\* FreeImage_SaveToHandle opening the session before it tests save_proc
SaveToHandle_OpensFirst(fif, has_pixels, open_data, outcome) ==
    LET none == [ret |-> 0, raised |-> FALSE, made |-> <<>>]
    IN  IF ~has_pixels
        THEN [none EXCEPT !.made = <<Made("FreeImage_OutputMessageProc", fif, FALSE, 0, FALSE)>>]
        ELSE IF fif >= 0 /\ fif < FreeImage_GetFIFCount
        THEN LET node == FindNodeFromFIF(s_plugins.m_plugin_map, fif)
                 found == <<Made("FindNodeFromFIF", fif, FALSE, 0, FALSE)>>
             IN  IF node # NULLNODE
                 THEN LET data == OpenData(node, open_data)
                          opened == found \o OpenMade(node, open_data, FALSE)
                          result == BoolToInt(outcome = "ok")
                      IN  IF ~node.m_plugin.save_proc
                          THEN [none EXCEPT !.made = opened \o CloseMade(node, data)]
                          ELSE IF outcome = "throw"
                          THEN [ret |-> 0, raised |-> TRUE,
                                made |-> opened \o <<Made("save_proc", data, FALSE, 0, TRUE)>>]
                          ELSE [ret |-> result, raised |-> FALSE,
                                made |-> opened
                                         \o <<Made("save_proc", data, FALSE, result, FALSE)>>
                                         \o CloseMade(node, data)]
                 ELSE [none EXCEPT !.made = found]
        ELSE none

\* FreeImage_SaveToHandle testing FreeImage_HasPixels after the plugin's lookup
SaveToHandle_LooksUpFirst(fif, has_pixels, open_data, outcome) ==
    LET none == [ret |-> 0, raised |-> FALSE, made |-> <<>>]
    IN  IF fif >= 0 /\ fif < FreeImage_GetFIFCount
        THEN LET node == FindNodeFromFIF(s_plugins.m_plugin_map, fif)
                 found == <<Made("FindNodeFromFIF", fif, FALSE, 0, FALSE)>>
             IN  IF ~has_pixels
                 THEN [none EXCEPT !.made =
                          found \o <<Made("FreeImage_OutputMessageProc", fif, FALSE, 0, FALSE)>>]
                 ELSE IF node # NULLNODE /\ node.m_plugin.save_proc
                 THEN LET data == OpenData(node, open_data)
                          opened == found \o OpenMade(node, open_data, FALSE)
                          result == BoolToInt(outcome = "ok")
                      IN  IF outcome = "throw"
                          THEN [ret |-> 0, raised |-> TRUE,
                                made |-> opened \o <<Made("save_proc", data, FALSE, 0, TRUE)>>]
                          ELSE [ret |-> result, raised |-> FALSE,
                                made |-> opened
                                         \o <<Made("save_proc", data, FALSE, result, FALSE)>>
                                         \o CloseMade(node, data)]
                 ELSE [none EXCEPT !.made = found]
        ELSE IF ~has_pixels
        THEN [none EXCEPT !.made = <<Made("FreeImage_OutputMessageProc", fif, FALSE, 0, FALSE)>>]
        ELSE none

\* FreeImage_SaveToHandle on a bitmap for which FreeImage_HasPixels is has_pixels
SaveToHandle(fif, has_pixels, open_data, outcome) ==
    LET none == [ret |-> 0, raised |-> FALSE, made |-> <<>>]
    IN  IF ~has_pixels
        THEN [none EXCEPT !.made = <<Made("FreeImage_OutputMessageProc", fif, FALSE, 0, FALSE)>>]
        ELSE IF fif >= 0 /\ fif < FreeImage_GetFIFCount
        THEN LET node == FindNodeFromFIF(s_plugins.m_plugin_map, fif)
                 found == <<Made("FindNodeFromFIF", fif, FALSE, 0, FALSE)>>
             IN  IF node # NULLNODE /\ node.m_plugin.save_proc
                 THEN LET data == OpenData(node, open_data)
                          opened == found \o OpenMade(node, open_data, FALSE)
                          result == BoolToInt(outcome = "ok")
                      IN  IF outcome = "throw"
                          THEN [ret |-> 0, raised |-> TRUE,
                                made |-> opened \o <<Made("save_proc", data, FALSE, 0, TRUE)>>]
                          ELSE [ret |-> result, raised |-> FALSE,
                                made |-> opened
                                         \o <<Made("save_proc", data, FALSE, result, FALSE)>>
                                         \o CloseMade(node, data)]
                 ELSE [none EXCEPT !.made = found]
        ELSE none

FreeImage_SaveToHandle(fif, has_pixels, open_data, outcome) ==
    /\ Ready
    /\ LET r == SaveToHandle(fif, has_pixels, open_data, outcome)
       IN  /\ call' = Call("Save", fif, NULLPROC, NULLSTR, has_pixels, r.ret, r.raised)
           /\ calls_made' = r.made
    /\ UNCHANGED <<s_plugins, s_plugin_reference_count, crashed, handle_pos, constructions, libraries, memory, outVal, made, image, LUT>>

-----------------------------------------------------------------------------
(* Format identification *)

\* io->seek_proc(handle, offset, SEEK_SET) on a stream at position pos: the
\* position afterwards
seek_proc(pos, offset) == offset

\* FreeImage_ValidateFIF without the seek back to the position it noted
ValidateFIF_NoSeek(fif, pos, valid, moved_to) ==
    LET none == [ret |-> FALSE, pos |-> pos, made |-> <<>>]
    IN  IF ~s_plugins.null
        THEN LET node == FindNodeFromFIF(s_plugins.m_plugin_map, fif)
                 tell == pos
                 runs == node.m_enabled /\ node.m_plugin.validate_proc
                 validated == IF runs THEN moved_to ELSE pos
             IN  IF node # NULLNODE
                 THEN [ret |-> runs /\ valid,
                       pos |-> validated,
                       made |-> <<Made("tell_proc", pos, FALSE, tell, FALSE)>>
                                \o (IF runs
                                    THEN <<Made("validate_proc", moved_to, FALSE,
                                                BoolToInt(valid), FALSE)>>
                                    ELSE <<>>)]
                 ELSE none
        ELSE none

\* FreeImage_ValidateFIF on a stream at position pos.  When the validate hook
\* runs it returns valid and leaves the stream at moved_to.
ValidateFIF(fif, pos, valid, moved_to) ==
    LET none == [ret |-> FALSE, pos |-> pos, made |-> <<>>]
    IN  IF ~s_plugins.null
        THEN LET node == FindNodeFromFIF(s_plugins.m_plugin_map, fif)
                 tell == pos
                 runs == node.m_enabled /\ node.m_plugin.validate_proc
                 validated == IF runs THEN moved_to ELSE pos
             IN  IF node # NULLNODE
                 THEN [ret |-> runs /\ valid,
                       pos |-> seek_proc(validated, tell),
                       made |-> <<Made("tell_proc", pos, FALSE, tell, FALSE)>>
                                \o (IF runs
                                    THEN <<Made("validate_proc", moved_to, FALSE,
                                                BoolToInt(valid), FALSE)>>
                                    ELSE <<>>)
                                \o <<Made("seek_proc", tell, FALSE, 0, FALSE)>>]
                 ELSE none
        ELSE none

\* The stream passed is the caller's one stream, at handle_pos
FreeImage_ValidateFIF(fif, valid, moved_to) ==
    /\ Ready
    /\ LET r == ValidateFIF(fif, handle_pos, valid, moved_to)
       IN  /\ call' = Call("ValidateFIF", fif, NULLPROC, NULLSTR, FALSE, BoolToInt(r.ret), FALSE)
           /\ calls_made' = r.made
           /\ handle_pos' = r.pos
    /\ UNCHANGED <<s_plugins, s_plugin_reference_count, crashed, constructions, libraries, memory, outVal, made, image, LUT>>

FreeImage_GetFIFFromFormat(format) ==
    /\ Ready
    /\ call' = Call("GetFIFFromFormat", FIF_UNKNOWN, NULLPROC, format, FALSE,
                    GetFIFFromFormat(format), FALSE)
    /\ calls_made' = <<>>
    /\ UNCHANGED <<s_plugins, s_plugin_reference_count, crashed, handle_pos, constructions, libraries, memory, outVal, made, image, LUT>>

FreeImage_GetFIFFromMime(mime) ==
    /\ Ready
    /\ call' = Call("GetFIFFromMime", FIF_UNKNOWN, NULLPROC, mime, FALSE,
                    GetFIFFromMime(mime), FALSE)
    /\ calls_made' = <<>>
    /\ UNCHANGED <<s_plugins, s_plugin_reference_count, crashed, handle_pos, constructions, libraries, memory, outVal, made, image, LUT>>

\* FreeImage_GetFIFFromFilename; a read through a null pointer that faults ends
\* the process
FreeImage_GetFIFFromFilename(filename) ==
    /\ Ready
    /\ LET r == GetFIFFromFilename(filename, FALSE)
       IN  \/ /\ call' = Call("GetFIFFromFilename", FIF_UNKNOWN, NULLPROC, filename, FALSE,
                              r.ret, FALSE)
              /\ crashed' = r.fault
           \/ /\ r.fault
              /\ call' = Call("GetFIFFromFilename", FIF_UNKNOWN, NULLPROC, filename, FALSE,
                              GetFIFFromFilename(filename, TRUE).ret, FALSE)
              /\ crashed' = GetFIFFromFilename(filename, TRUE).fault
    /\ calls_made' = <<>>
    /\ UNCHANGED <<s_plugins, s_plugin_reference_count, handle_pos, constructions, libraries, memory, outVal, made, image, LUT>>

\* The caller takes the outcome of the last call
Return ==
    /\ call # NoCall
    /\ call' = NoCall
    /\ calls_made' = <<>>
    /\ UNCHANGED <<s_plugins, s_plugin_reference_count, crashed, handle_pos, constructions, libraries, memory, outVal, made, image, LUT>>

-----------------------------------------------------------------------------
(* Specification *)

Next ==
    \/ FreeImage_Initialise
    \/ FreeImage_DeInitialise
    \/ \E r \in RegisterInputs : FreeImage_RegisterLocalPlugin(r[1], r[2], r[3])
    \/ \E fif \in EnableInputs, enable \in BOOLEAN : FreeImage_SetPluginEnabled(fif, enable)
    \/ \E fif \in FifInputs, d \in DataInputs, o \in OutcomeInputs, moved_to \in Positions :
          FreeImage_LoadFromHandle(fif, d, o, moved_to)
    \/ \E fif \in FifInputs, p \in BOOLEAN, d \in DataInputs, o \in OutcomeInputs :
          FreeImage_SaveToHandle(fif, p, d, o)
    \/ \E fif \in FifInputs, valid \in BOOLEAN, moved_to \in Positions :
          FreeImage_ValidateFIF(fif, valid, moved_to)
    \/ \E format \in FormatInputs : FreeImage_GetFIFFromFormat(format)
    \/ \E mime \in MimeInputs : FreeImage_GetFIFFromMime(mime)
    \/ \E filename \in FilenameInputs : FreeImage_GetFIFFromFilename(filename)
    \/ Return

Spec == Init /\ [][Next]_vars

\* The Windows build: FreeImage_Initialise searches the plugin directories and
\* FreeImage_RegisterExternalPlugin exists
NextWin32 ==
    \/ \E local \in BOOLEAN, found \in FoundInputs : FreeImage_Initialise_WIN32(local, found)
    \/ FreeImage_DeInitialise
    \/ \E given \in BOOLEAN, file \in FileInputs, format \in {NULLSTR, "XB"} :
          FreeImage_RegisterExternalPlugin(given, file, format, NULLSTR)
    \/ \E r \in RegisterInputs : FreeImage_RegisterLocalPlugin(r[1], r[2], r[3])
    \/ \E fif \in EnableInputs, enable \in BOOLEAN : FreeImage_SetPluginEnabled(fif, enable)
    \/ Return

SpecWin32 == Init /\ [][NextWin32]_vars

-----------------------------------------------------------------------------
(* Histogram calls *)

\* The plugin registry is left alone by the histogram calls
registry_vars == <<s_plugins, s_plugin_reference_count, crashed, call, calls_made,
                   handle_pos, constructions, libraries>>
histogram_vars == <<memory, outVal>>
curve_vars == <<image, LUT>>

\* FreeImage_MakeHistogram(dib, binsNumber, outMinVal, outMaxVal, histR, strideR,
\* histG, strideG, histB, strideB, histL, strideL) on the caller's storage
FreeImage_MakeHistogram(dib, scan_ok, binsNumber, outMinVal, outMaxVal, hist, stride) ==
    /\ made.op = "none"
    /\ Fits(binsNumber, hist, stride)
    /\ LET r == MakeHistogram(Storage(binsNumber), outVal, dib, scan_ok, binsNumber,
                              outMinVal, outMaxVal, hist, stride)
       IN  /\ memory' = r.mem
           /\ outVal' = r.out
           /\ made' = [op |-> "MakeHistogram", dib |-> dib, scan_ok |-> scan_ok,
                       binsNumber |-> binsNumber, outMinVal |-> outMinVal,
                       outMaxVal |-> outMaxVal, hist |-> hist, stride |-> stride,
                       ret |-> r.ret]
    /\ UNCHANGED registry_vars
    /\ UNCHANGED curve_vars

\* The caller has read the histograms and gives up its storage
Reuse ==
    /\ made.op # "none"
    /\ memory' = <<>>
    /\ outVal' = [min |-> Unwritten, max |-> Unwritten]
    /\ made' = NoHistogram
    /\ image' = NoBitmap
    /\ LUT' = NoTable
    /\ UNCHANGED registry_vars

\* The histogram calls on the bitmaps explored
\* Ranges HistogramFloat is made with, <<minVal, maxVal>>
RangeInputs == {<<-1, 2>>, <<2, 2>>, <<2, -1>>, <<3, 2>>}

\* HistogramFloat<float>(dib, binsNumber, minVal, maxVal) invoked with an
\* identity builder on cleared counters at hist, as InvokeWithBuilders does
HistogramFloat_operator(dib, binsNumber, minVal, maxVal, hist, stride) ==
    /\ made.op = "none"
    /\ Fits(binsNumber, hist, stride)
    /\ LET cleared == ClearHistogram(Storage(binsNumber), hist[1], stride[1], binsNumber)
           r == HistogramFloat(cleared, dib, ToBytes(binsNumber, 4), minVal, maxVal,
                               InvokeWithBuilders(IdentityBuilders(hist, stride)))
       IN  /\ memory' = r.mem
           /\ made' = [op |-> "HistogramFloat", dib |-> dib, binsNumber |-> binsNumber,
                       minVal |-> minVal, maxVal |-> maxVal, hist |-> hist,
                       stride |-> stride, ret |-> r.ok]
    /\ UNCHANGED outVal
    /\ UNCHANGED registry_vars
    /\ UNCHANGED curve_vars

NextHistogram ==
    \/ /\ made.op = "none"
       /\ \E e \in EncodingInputs :
             \E dib \in BitmapsOf(e), scan_ok \in BOOLEAN, binsNumber \in BinsInputs,
                out \in OutInputs, request \in RequestInputs :
                /\ scan_ok \/ e.type \in FloatingTypes
                /\ FreeImage_MakeHistogram(dib, scan_ok, binsNumber, out[1], out[2],
                                           request[1], request[2])
    \/ /\ made.op = "none"
       /\ \E dib \in BitmapsOf(Encoding("FIT_FLOAT", 32, "FIC_MINISBLACK",
                                        {<<Real(-1)>>, <<Real(2)>>})),
             binsNumber \in 1..MaxBins, range \in RangeInputs, s \in {1, 2} :
             /\ dib.has_pixels
             /\ HistogramFloat_operator(dib, binsNumber, range[1], range[2],
                                        Request({1}, [k \in 1..4 |-> s])[1],
                                        Request({1}, [k \in 1..4 |-> s])[2])
    \/ Reuse

SpecHistogram == Init /\ [][NextHistogram]_vars

-----------------------------------------------------------------------------
(* The bin index of a channel value *)

\* Channel values of an integer type of the given bits, as its bytes: the
\* least, the next, those about the middle of the range, the greatest
ValueInputs(bits) ==
    LET n == bits \div 8
    IN  { [i \in 1..n |-> 0],
          [i \in 1..n |-> IF i = 1 THEN 1 ELSE 0],
          [i \in 1..n |-> IF i = n THEN 127 ELSE 255],
          [i \in 1..n |-> IF i = n THEN 128 ELSE 0],
          [i \in 1..n |-> IF i = n THEN 255 ELSE 254],
          [i \in 1..n |-> 255] }

\* Bin counts, as the bytes of a uint32_t: small ones, those about 2^8, 2^16
\* and 2^24, and the greatest
BinsNumberInputs ==
    { U32(1, 0, 0, 0), U32(2, 0, 0, 0), U32(3, 0, 0, 0), U32(255, 0, 0, 0),
      U32(0, 1, 0, 0), U32(1, 1, 0, 0), U32(255, 255, 0, 0), U32(0, 0, 1, 0),
      U32(1, 0, 1, 0), U32(2, 0, 1, 0), U32(160, 134, 1, 0), U32(0, 0, 0, 1),
      U32(1, 0, 0, 1), U32(0, 0, 0, 2), U32(0, 0, 0, 128), U32(255, 255, 255, 255) }

\* HistogramUInt's index function on a value and on one not less
BinIndexUInt(bits, mBinsNumber, value, next) ==
    /\ made.op = "none"
    /\ ~Less(next, value)
    /\ made' = [op |-> "BinIndex", signed |-> FALSE, bits |-> bits,
                binsNumber |-> mBinsNumber, value |-> value, next |-> next,
                index |-> Apply(IndexFunctionUInt(mBinsNumber, bits), value),
                index_next |-> Apply(IndexFunctionUInt(mBinsNumber, bits), next)]
    /\ UNCHANGED histogram_vars
    /\ UNCHANGED registry_vars
    /\ UNCHANGED curve_vars

\* HistogramSInt's index function on a value
BinIndexSInt(bits, mBinsNumber, value) ==
    /\ made.op = "none"
    /\ made' = [op |-> "BinIndex", signed |-> TRUE, bits |-> bits,
                binsNumber |-> mBinsNumber, value |-> value, next |-> value,
                index |-> Apply(IndexFunctionSInt(mBinsNumber, bits), value),
                index_next |-> Apply(IndexFunctionSInt(mBinsNumber, bits), value)]
    /\ UNCHANGED histogram_vars
    /\ UNCHANGED registry_vars
    /\ UNCHANGED curve_vars

NextBinIndex ==
    \/ \E bits \in {8, 16, 32}, mBinsNumber \in BinsNumberInputs :
          \E value, next \in ValueInputs(bits) : BinIndexUInt(bits, mBinsNumber, value, next)
    \/ \E bits \in {16, 32}, mBinsNumber \in BinsNumberInputs :
          \E value \in ValueInputs(bits) : BinIndexSInt(bits, mBinsNumber, value)
    \/ Reuse

SpecBinIndex == Init /\ [][NextBinIndex]_vars

-----------------------------------------------------------------------------
(* Lookup tables and curves: the calls explored *)

\* brightness, contrast (percent), gamma (<<p, q>> for p/q) and invert: the
\* neutral arguments, a gamma that is not positive, each adjustment alone,
\* two and all four together
AdjustInputs ==
    { <<0, 0, <<1, 1>>, FALSE>>, <<0, 0, <<0, 1>>, FALSE>>, <<0, 0, <<-1, 1>>, FALSE>>,
      <<50, 0, <<1, 1>>, FALSE>>, <<0, 25, <<1, 1>>, FALSE>>, <<0, -100, <<1, 1>>, FALSE>>,
      <<50, 15, <<1, 1>>, FALSE>>, <<0, 0, <<1, 2>>, FALSE>>, <<0, 0, <<1, 1>>, TRUE>>,
      <<-50, 0, <<0, 1>>, TRUE>>, <<50, 25, <<1, 2>>, TRUE>> }

PercentageInputs == {-30, 0, 15, 50}

\* Bitmaps with a palette or pixels of a few bytes
Rgb(red, green, blue) == [red |-> red, green |-> green, blue |-> blue]
Rgba(red, green, blue, alpha) ==
    [red |-> red, green |-> green, blue |-> blue, alpha |-> alpha]
Index(byte) == [index |-> byte]
GrayRamp == <<Rgba(0, 0, 0, 0), Rgba(255, 255, 255, 0)>>
CurveInputs ==
    { Dib(TRUE, "FIT_BITMAP", 8, "FIC_MINISBLACK", GrayRamp, <<Index(100), Index(148)>>),
      Dib(TRUE, "FIT_BITMAP", 8, "FIC_MINISBLACK", GrayRamp, <<Index(108)>>),
      Dib(TRUE, "FIT_BITMAP", 8, "FIC_PALETTE",
          <<Rgba(10, 200, 30, 0), Rgba(138, 0, 255, 7)>>, <<Index(1), Index(0), Index(1)>>),
      Dib(TRUE, "FIT_BITMAP", 24, "FIC_RGB", <<>>, <<Rgb(10, 200, 138), Rgb(0, 255, 68)>>),
      Dib(TRUE, "FIT_BITMAP", 32, "FIC_RGBALPHA", <<>>, <<Rgba(10, 138, 30, 77)>>),
      Dib(FALSE, "FIT_BITMAP", 24, "FIC_RGB", <<>>, <<>>),
      Dib(FALSE, "FIT_BITMAP", 8, "FIC_PALETTE", <<Rgba(10, 200, 30, 0)>>, <<>>),
      Dib(TRUE, "FIT_UINT16", 16, "FIC_MINISBLACK", <<>>, <<Index(100)>>),
      Dib(TRUE, "FIT_RGBF", 96, "FIC_RGB", <<>>, <<Rgb(1, 2, 3)>>),
      Dib(TRUE, "FIT_BITMAP", 16, "FIC_RGB", <<>>, <<Index(100)>>),
      Dib(TRUE, "FIT_BITMAP", 4, "FIC_PALETTE", <<Rgba(10, 200, 30, 0)>>, <<Index(0)>>),
      Dib(TRUE, "FIT_BITMAP", 1, "FIC_MINISBLACK", GrayRamp, <<Index(1)>>) }

\* Tables of the caller: none, the inversion, one that moves every byte
TableInputs ==
    {NULLLUT, [i \in 0..255 |-> 255 - i], [i \in 0..255 |-> (i + 1) % 256]}

\* FREE_IMAGE_COLOR_CHANNEL
ChannelInputs ==
    {"FICC_RGB", "FICC_RED", "FICC_GREEN", "FICC_BLUE", "FICC_ALPHA", "FICC_BLACK"}

\* The bytes a bitmap holds, in its pixels and its palette
BytesOf(dib) ==
    UNION ({ {dib.pixels[n][c] : c \in DOMAIN dib.pixels[n]} : n \in DOMAIN dib.pixels }
           \cup { {dib.palette[n][c] : c \in DOMAIN dib.palette[n]}
                  : n \in DOMAIN dib.palette })

FreeImage_GetAdjustColorsLookupTable(brightness, contrast, gamma, invert) ==
    /\ made.op = "none"
    /\ \E down \in SUBSET TieBytes(brightness, contrast, gamma) :
          LET r == GetAdjustColorsLookupTable(brightness, contrast, gamma, invert, down)
          IN  /\ LUT' = r.LUT
              /\ made' = [op |-> "GetAdjustColorsLookupTable", brightness |-> brightness,
                          contrast |-> contrast, gamma |-> gamma, invert |-> invert,
                          ret |-> r.result]
    /\ UNCHANGED image
    /\ UNCHANGED histogram_vars
    /\ UNCHANGED registry_vars

FreeImage_AdjustCurve(src, table, channel) ==
    /\ made.op = "none"
    /\ LET r == AdjustCurve(src, table, channel)
       IN  /\ image' = r.dib
           /\ made' = [op |-> "AdjustCurve", src |-> src, LUT |-> table,
                       channel |-> channel, ret |-> r.ret]
    /\ UNCHANGED LUT
    /\ UNCHANGED histogram_vars
    /\ UNCHANGED registry_vars

FreeImage_AdjustBrightness(src, percentage) ==
    /\ made.op = "none"
    /\ \E down \in SUBSET (BytesOf(src) \cap TieBytes(percentage, 0, <<1, 1>>)) :
          LET r == AdjustBrightness(src, percentage, down)
          IN  /\ image' = r.dib
              /\ made' = [op |-> "AdjustBrightness", src |-> src,
                          percentage |-> percentage, ret |-> r.ret]
    /\ UNCHANGED LUT
    /\ UNCHANGED histogram_vars
    /\ UNCHANGED registry_vars

FreeImage_AdjustContrast(src, percentage) ==
    /\ made.op = "none"
    /\ \E down \in SUBSET (BytesOf(src) \cap TieBytes(0, percentage, <<1, 1>>)) :
          LET r == AdjustContrast(src, percentage, down)
          IN  /\ image' = r.dib
              /\ made' = [op |-> "AdjustContrast", src |-> src,
                          percentage |-> percentage, ret |-> r.ret]
    /\ UNCHANGED LUT
    /\ UNCHANGED histogram_vars
    /\ UNCHANGED registry_vars

FreeImage_AdjustColors(dib, brightness, contrast, gamma, invert) ==
    /\ made.op = "none"
    /\ \E down \in SUBSET (BytesOf(dib) \cap TieBytes(brightness, contrast, gamma)) :
          LET r == AdjustColors(dib, brightness, contrast, gamma, invert, down)
          IN  /\ image' = r.dib
              /\ made' = [op |-> "AdjustColors", src |-> dib, brightness |-> brightness,
                          contrast |-> contrast, gamma |-> gamma, invert |-> invert,
                          ret |-> r.ret]
    /\ UNCHANGED LUT
    /\ UNCHANGED histogram_vars
    /\ UNCHANGED registry_vars

NextCurve ==
    \/ \E a \in AdjustInputs : FreeImage_GetAdjustColorsLookupTable(a[1], a[2], a[3], a[4])
    \/ \E src \in CurveInputs, table \in TableInputs, channel \in ChannelInputs :
          FreeImage_AdjustCurve(src, table, channel)
    \/ \E src \in CurveInputs, percentage \in PercentageInputs :
          FreeImage_AdjustBrightness(src, percentage)
    \/ \E src \in CurveInputs, percentage \in PercentageInputs :
          FreeImage_AdjustContrast(src, percentage)
    \/ \E dib \in CurveInputs, a \in AdjustInputs :
          FreeImage_AdjustColors(dib, a[1], a[2], a[3], a[4])
    \/ Reuse

SpecCurve == Init /\ [][NextCurve]_vars

-----------------------------------------------------------------------------
(* Vocabulary of the properties *)

Registry == s_plugins.m_plugin_map
Ids == DOMAIN s_plugins.m_plugin_map
Allocated == ~s_plugins.null

\* The plugin hooks among the calls a dispatch makes
HookNames == {"open_proc", "close_proc", "load_proc", "save_proc", "validate_proc"}
IsHook(e) == e.what \in HookNames
HooksMade == SelectSeq(calls_made, IsHook)

\* The step is a call of the API function op
Calls(op) == call = NoCall /\ call'.op = op

\* The format name a node answers to
FormatOf(node) ==
    IF node.m_format # NULLSTR THEN node.m_format ELSE node.m_plugin.format_proc

\* The node AddNode builds for a setup entry point and overrides
NodeOf(id, init_proc, format, extension) ==
    [m_id |-> id, m_instance |-> 0, m_plugin |-> InitProc(init_proc),
     m_format |-> format, m_extension |-> extension, m_enabled |-> TRUE]

\* The map holds the built-in plugins at their ids, enabled
BuiltinsRegistered(m) ==
    /\ DOMAIN m = 0..(NumBuiltins - 1)
    /\ \A i \in DOMAIN m :
          m[i] = NodeOf(i, BuiltinPlugins[i + 1].init_proc,
                        BuiltinPlugins[i + 1].format, BuiltinPlugins[i + 1].extension)

\* Registrations that succeed
AcceptedInputs ==
    {r \in RegisterInputs :
        /\ r[1] # NULLPROC
        /\ ~InitThrowsException(r[1])
        /\ (r[2] # NULLSTR \/ InitProc(r[1]).format_proc \notin {NOPROC, NULLSTR})}

-----------------------------------------------------------------------------
(* Properties *)

\* C1: over calls of FreeImage_Initialise and FreeImage_DeInitialise that never
\* tear down at counter zero, the catalog is constructed, with the built-in
\* plugins registered, exactly on the calls taking the counter from 0 to 1,
\* destroyed exactly on the calls taking it from 1 to 0, and every other
\* (nested) call leaves the registered descriptors and their enabled flags as
\* they were.
C1_CatalogFollowsCounter ==
    [][ ( /\ s_plugin_reference_count' # s_plugin_reference_count
          /\ s_plugin_reference_count >= 0
          /\ s_plugin_reference_count' >= 0 )
        => LET up == s_plugin_reference_count = 0 /\ s_plugin_reference_count' = 1
               down == s_plugin_reference_count = 1 /\ s_plugin_reference_count' = 0
           IN  /\ up => ( /\ s_plugins.null
                          /\ ~s_plugins'.null
                          /\ BuiltinsRegistered(s_plugins'.m_plugin_map) )
               /\ down => (~s_plugins.null /\ s_plugins'.null)
               /\ (~up /\ ~down) => (~s_plugins.null /\ s_plugins' = s_plugins)
      ]_vars

\* C1's case: a nested teardown (counter 2 to 1) of a catalog that holds a
\* plugin registered by the application and a disabled plugin
C1_Witness ==
    /\ call.op = "DeInitialise"
    /\ s_plugin_reference_count = 1
    /\ Allocated
    /\ Size(Registry) > NumBuiltins
    /\ \E k \in Ids : ~Registry[k].m_enabled

\* C2: ids follow registration order.  Three registrations into an empty
\* registry return 0, 1, 2; the built-in plugins sit at the ids of their
\* registration order (the tables of InitBMP at 0, InitICO at 1, InitJPEG at
\* 2, ..., InitRAW, answering to "RAW", at 34, InitWEBP at 35, InitJXR at 36),
\* the same after a full teardown and a new initialisation; a plugin
\* registered after them gets the next id.
C2_IdsFollowRegistrationOrder ==
    /\ \A a \in AcceptedInputs, b \in AcceptedInputs, c \in AcceptedInputs :
          LET r1 == AddNode(EmptyMap, a[1], 0, a[2], a[3])
              r2 == AddNode(r1.map, b[1], 0, b[2], b[3])
              r3 == AddNode(r2.map, c[1], 0, c[2], c[3])
          IN  /\ r1.ret = 0 /\ r2.ret = 1 /\ r3.ret = 2
              /\ r3.map = (0 :> NodeOf(0, a[1], a[2], a[3]))
                          @@ (1 :> NodeOf(1, b[1], b[2], b[3]))
                          @@ (2 :> NodeOf(2, c[1], c[2], c[3]))
    /\ Allocated =>
          /\ Registry[0].m_plugin = InitProc("InitBMP")
          /\ Registry[1].m_plugin = InitProc("InitICO")
          /\ Registry[2].m_plugin = InitProc("InitJPEG")
          /\ Registry[34].m_plugin = InitRAW
          /\ Registry[35].m_plugin = InitProc("InitWEBP")
          /\ Registry[36].m_plugin = InitProc("InitJXR")
          /\ FreeImage_GetFormatFromFIF(34) = "RAW"
          /\ NumBuiltins = 37
          /\ \A i \in 0..(NumBuiltins - 1) :
                /\ i \in Ids
                /\ Registry[i].m_id = i
                /\ Registry[i].m_plugin = InitProc(BuiltinPlugins[i + 1].init_proc)
                /\ Registry[i].m_format = BuiltinPlugins[i + 1].format
          /\ (call.op = "Register" /\ call.ret # FIF_UNKNOWN) =>
                /\ call.ret = Size(Registry) - 1
                /\ call.ret >= NumBuiltins
                /\ Registry[call.ret].m_id = call.ret
                /\ Registry[call.ret].m_plugin = InitProc(call.init_proc)
                /\ Registry[call.ret].m_format = call.str

\* C2's case: after a full teardown and a second initialisation, the second
\* plugin the application registers
C2_Witness ==
    /\ constructions = "again"
    /\ call.op = "Register"
    /\ call.ret = NumBuiltins + 1
    /\ FreeImage_GetFormatFromFIF(34) = "RAW"

\* C3: the registered ids are exactly 0 .. Count() - 1 and every descriptor's
\* stored id is the key it is stored under; a rejected registration consumes
\* no id, so that a successful one returns the Count() observed before it.
C3_IdsAreDense ==
    /\ [](Allocated =>
            /\ Ids = 0..(FreeImage_GetFIFCount - 1)
            /\ \A k \in Ids : Registry[k].m_id = k)
    /\ [][ (Calls("Register") /\ Allocated) =>
             IF call'.ret = FIF_UNKNOWN
             THEN FreeImage_GetFIFCount' = FreeImage_GetFIFCount
             ELSE /\ call'.ret = FreeImage_GetFIFCount
                  /\ FreeImage_GetFIFCount' = FreeImage_GetFIFCount + 1
       ]_vars

\* C3's case: a registration rejected for its missing format name, on a
\* catalog that already holds a plugin registered by the application
C3_Witness ==
    /\ call.op = "Register"
    /\ call.init_proc = "InitNullName"
    /\ call.ret = FIF_UNKNOWN
    /\ Allocated
    /\ FreeImage_GetFIFCount = NumBuiltins + 1

\* C4: on an allocated registry, Register returns FIF_UNKNOWN and leaves the
\* registry unchanged when the setup entry point is absent, when it throws, or
\* when no format name is available (no override, and the format-name hook is
\* absent or returns a null pointer); otherwise it stores the descriptor,
\* enabled, under the id it returns, and Count() grows by one.
C4_RegisterOutcome ==
    [][ (Calls("Register") /\ Allocated) =>
          LET proc == call'.init_proc
              format == call'.str
              rejected ==
                  \/ proc = NULLPROC
                  \/ InitThrowsException(proc)
                  \/ /\ format = NULLSTR
                     /\ InitProc(proc).format_proc \in {NOPROC, NULLSTR}
              id == call'.ret
          IN  IF rejected
              THEN call'.ret = FIF_UNKNOWN /\ s_plugins' = s_plugins
              ELSE /\ id = FreeImage_GetFIFCount
                   /\ FreeImage_GetFIFCount' = FreeImage_GetFIFCount + 1
                   /\ ~s_plugins'.null
                   /\ DOMAIN s_plugins'.m_plugin_map = Ids \cup {id}
                   /\ \A k \in Ids : s_plugins'.m_plugin_map[k] = Registry[k]
                   /\ s_plugins'.m_plugin_map[id].m_id = id
                   /\ s_plugins'.m_plugin_map[id].m_enabled
                   /\ s_plugins'.m_plugin_map[id].m_plugin = InitProc(proc)
                   /\ s_plugins'.m_plugin_map[id].m_format = format
      ]_vars

\* C4's case: a registration whose setup entry point throws although a format
\* override is given, on a catalog holding a disabled plugin
C4_Witness ==
    /\ call.op = "Register"
    /\ call.init_proc = "InitThrows"
    /\ call.str = "XB"
    /\ Allocated
    /\ \E k \in Ids : ~Registry[k].m_enabled

\* C5: while a plugin is disabled, the lookups by format name and by MIME type
\* never return it, the detection by file extension never returns its id, and
\* stream validation against its id returns false without calling the
\* validate hook; the lookup by id still returns it.
C5_DisabledIsFiltered ==
    Allocated =>
        /\ ( /\ call.op \in {"GetFIFFromFormat", "GetFIFFromMime", "GetFIFFromFilename"}
             /\ call.ret # FIF_UNKNOWN )
           => (call.ret \in Ids /\ Registry[call.ret].m_enabled)
        /\ ( /\ call.op = "ValidateFIF"
             /\ call.fif \in Ids
             /\ ~Registry[call.fif].m_enabled )
           => ( /\ call.ret = 0
                /\ \A i \in DOMAIN calls_made : calls_made[i].what # "validate_proc" )
        /\ \A k \in Ids :
              ~Registry[k].m_enabled =>
                  /\ FindNodeFromFIF(Registry, k) = Registry[k]
                  /\ FindNodeFromFIF(Registry, k).m_id = k

\* C5's case: a lookup of the format name "xa" while the plugin answering to
\* it at the first id after the built-in ones is disabled
C5_Witness ==
    /\ call.op = "GetFIFFromFormat"
    /\ call.str = "xa"
    /\ Allocated
    /\ NumBuiltins \in Ids
    /\ FormatOf(Registry[NumBuiltins]) = "XA"
    /\ ~Registry[NumBuiltins].m_enabled

\* C6: SetPluginEnabled(id, e) on a registered id returns the previous enabled
\* state (1 or 0) and sets the state to e, changing nothing else of the
\* registry; on an unregistered id or an unallocated registry it returns -1
\* and changes nothing.
C6_SetEnabledOutcome ==
    [][ Calls("SetPluginEnabled") =>
          LET id == call'.fif
              e == call'.flag
          IN  /\ IF Allocated /\ id \in Ids
                 THEN /\ call'.ret = BoolToInt(Registry[id].m_enabled)
                      /\ ~s_plugins'.null
                      /\ s_plugins'.m_plugin_map = [Registry EXCEPT ![id].m_enabled = e]
                      /\ s_plugins'.m_plugin_map[id].m_enabled = e
                 ELSE call'.ret = -1 /\ s_plugins' = s_plugins
              /\ s_plugin_reference_count' = s_plugin_reference_count
      ]_vars

\* C6's case: enabling a disabled plugin registered by the application, the
\* call returning 0 as the previous state
C6_Witness ==
    /\ call.op = "SetPluginEnabled"
    /\ call.fif = NumBuiltins
    /\ call.flag
    /\ call.ret = 0
    /\ Allocated
    /\ Registry[NumBuiltins].m_enabled

\* The last call was a Load or a Save that reached a plugin exposing the
\* operation asked for (a Save of a bitmap that has pixels)
ReachesOperation ==
    /\ call.op \in {"Load", "Save"}
    /\ Allocated
    /\ call.fif \in Ids
    /\ IF call.op = "Load"
       THEN Registry[call.fif].m_plugin.load_proc
       ELSE call.flag /\ Registry[call.fif].m_plugin.save_proc

\* C7: a Load or Save that reaches a plugin exposing the operation, the
\* operation returning, calls the hooks in the order open, operation, close:
\* open (when present) once, with the read flag TRUE for Load and FALSE for
\* Save; the operation with the session data open returned (null without an
\* open hook); close (when present) once, after the operation, with the same
\* data, whatever the operation returned; and the call returns the
\* operation's result.
C7_SessionBracketsOperation ==
    (ReachesOperation /\ ~call.raised) =>
        LET plugin == Registry[call.fif].m_plugin
            operation == IF call.op = "Load" THEN "load_proc" ELSE "save_proc"
            opens == IF plugin.open_proc THEN 1 ELSE 0
            closes == IF plugin.close_proc THEN 1 ELSE 0
            at == opens + 1
        IN  /\ Len(HooksMade) = opens + 1 + closes
            /\ plugin.open_proc =>
                  /\ HooksMade[1].what = "open_proc"
                  /\ HooksMade[1].flag = (call.op = "Load")
            /\ HooksMade[at].what = operation
            /\ HooksMade[at].data = IF plugin.open_proc THEN HooksMade[1].result ELSE 0
            /\ plugin.close_proc =>
                  /\ HooksMade[at + 1].what = "close_proc"
                  /\ HooksMade[at + 1].data = HooksMade[at].data
            /\ call.ret = HooksMade[at].result

\* C7's case: a Load through a plugin with open and close hooks whose open
\* returned session data 1 and whose load returned null
C7_Witness ==
    /\ ReachesOperation
    /\ call.op = "Load"
    /\ call.ret = 0
    /\ ~call.raised
    /\ Len(HooksMade) = 3
    /\ HooksMade[1].result = 1

\* C8: when the plugin's load or save operation throws during a Load or Save,
\* the exception is caught, the call returns the failure value (null / FALSE)
\* and the close hook (when present) is still called with the session data.
C8_FaultIsCaught ==
    (ReachesOperation /\ \E i \in DOMAIN calls_made : calls_made[i].threw) =>
        /\ ~call.raised
        /\ call.ret = 0
        /\ Registry[call.fif].m_plugin.close_proc =>
              \E i, j \in DOMAIN calls_made :
                  /\ i < j
                  /\ calls_made[i].threw
                  /\ calls_made[j].what = "close_proc"
                  /\ calls_made[j].data = calls_made[i].data

\* C9: Load returns null and Save returns FALSE, calling no open, load, save
\* or close hook, when the id is negative, when it is Count() or more, when
\* the registry is not allocated, or when the plugin lacks the operation, as
\* the RAW plugin lacks save.
C9_NoHookWithoutOperation ==
    /\ (call.op \in {"Load", "Save"} /\ ~ReachesOperation) =>
          (call.ret = 0 /\ ~call.raised /\ HooksMade = <<>>)
    /\ (call.op = "Save" /\ Allocated /\ call.fif = RawId) =>
          /\ Registry[RawId].m_plugin = InitRAW
          /\ call.ret = 0
          /\ HooksMade = <<>>
    /\ (call.op = "Load" /\ (call.fif < 0 \/ call.fif >= FreeImage_GetFIFCount)) =>
          (call.ret = 0 /\ calls_made = <<>>)

\* C9's case: a Save of a bitmap with pixels through a registered plugin that
\* has session hooks and no save operation
C9_Witness ==
    /\ call.op = "Save"
    /\ call.flag
    /\ Allocated
    /\ call.fif \in Ids
    /\ Registry[call.fif].m_plugin.open_proc
    /\ ~Registry[call.fif].m_plugin.save_proc

\* C10: a Save of a bitmap without pixels returns FALSE for every id, calls no
\* plugin hook and does not look the plugin up.
C10_HeaderOnlySaveRejected ==
    (call.op = "Save" /\ ~call.flag) =>
        /\ call.ret = 0
        /\ ~call.raised
        /\ \A i \in DOMAIN calls_made :
              calls_made[i].what \notin (HookNames \cup {"FindNodeFromFIF"})

\* C10's case: a Save of a bitmap without pixels through the id of a
\* registered plugin that has a save operation and session hooks
C10_Witness ==
    /\ call.op = "Save"
    /\ ~call.flag
    /\ Allocated
    /\ call.fif \in Ids
    /\ Registry[call.fif].m_plugin.save_proc
    /\ Registry[call.fif].m_plugin.open_proc


\* C11: for every registered plugin id and every way its validate hook ends
\* (TRUE or FALSE, the stream left anywhere, as the RAW plugin's Validate
\* leaves it 32 bytes on when it returns from its signature test), the
\* stream's position after FreeImage_ValidateFIF is its position before; so
\* the position is the same after any sequence of such calls.
C11_ValidateRestoresPosition ==
    [][ Calls("ValidateFIF") => handle_pos' = handle_pos ]_vars

\* C11's case: validation through the enabled RAW plugin of a stream at
\* position 32 whose hook returned TRUE and left the stream elsewhere
C11_Witness ==
    /\ call.op = "ValidateFIF"
    /\ call.fif = RawId
    /\ call.ret = 1
    /\ handle_pos = 32
    /\ \E i \in DOMAIN calls_made :
          calls_made[i].what = "validate_proc" /\ calls_made[i].data # handle_pos


\* Two strings are equal when the ASCII letters' case is ignored
SameIgnoringCase(a, b) ==
    LET lower(c) == IF c \in 65..90 THEN c + 32 ELSE c
    IN  /\ Len(Chars(a)) = Len(Chars(b))
        /\ \A i \in 1..Len(Chars(a)) : lower(Chars(a)[i]) = lower(Chars(b)[i])

\* The least element of a non-empty set of ids
Lowest(S) == CHOOSE k \in S : \A j \in S : k <= j

\* C12: the lookup by format name returns the enabled descriptor of lowest id
\* whose effective format name (the registration override when one was given,
\* otherwise what the format-name hook returns) equals the name ignoring ASCII
\* case, and none when no enabled descriptor matches; the hook's name is not
\* used for a descriptor that has an override.
C12_FindByFormat ==
    (call.op = "GetFIFFromFormat" /\ Allocated) =>
        LET effective(k) ==
                IF Registry[k].m_format # NULLSTR THEN Registry[k].m_format
                ELSE Registry[k].m_plugin.format_proc
            matching == {k \in Ids : /\ Registry[k].m_enabled
                                     /\ SameIgnoringCase(effective(k), call.str)}
        IN  /\ call.ret = IF matching = {} THEN FIF_UNKNOWN ELSE Lowest(matching)
            /\ call.ret # FIF_UNKNOWN =>
                  FindNodeFromFormat(Registry, call.str) = Registry[call.ret]

\* C12's case: a lookup of "xa" when the first plugin registered by the
\* application has the hook name "XA" under the override "XB" and a later,
\* enabled one answers to "XA": the later one is returned
C12_Witness ==
    /\ call.op = "GetFIFFromFormat"
    /\ call.str = "xa"
    /\ Allocated
    /\ NumBuiltins \in Ids
    /\ Registry[NumBuiltins].m_enabled
    /\ Registry[NumBuiltins].m_format = "XB"
    /\ Registry[NumBuiltins].m_plugin.format_proc = "XA"
    /\ call.ret = NumBuiltins + 1


\* C13: the lookup by MIME type returns the enabled descriptor of lowest id
\* whose mime hook returns exactly the argument (case-sensitive) and none
\* otherwise; a descriptor without a mime hook has no MIME type and is never
\* returned, whatever the argument, the empty string included.
C13_FindByMime ==
    (call.op = "GetFIFFromMime" /\ Allocated) =>
        LET matching == {k \in Ids : /\ Registry[k].m_enabled
                                     /\ Registry[k].m_plugin.mime_proc # NOPROC
                                     /\ Registry[k].m_plugin.mime_proc # NULLSTR
                                     /\ Registry[k].m_plugin.mime_proc = call.str}
        IN  call.ret = IF matching = {} THEN FIF_UNKNOWN ELSE Lowest(matching)


\* Two sequences of character codes are equal when the ASCII letters' case
\* is ignored
SameCodesIgnoringCase(x, y) ==
    LET lower(c) == IF c \in 65..90 THEN c + 32 ELSE c
    IN  /\ Len(x) = Len(y)
        /\ \A i \in 1..Len(x) : lower(x[i]) = lower(y[i])

\* The part of a file name after its last '.', the whole name without one
AfterLastDot(name) ==
    LET dots == {i \in 1..Len(name) : name[i] = 46}
    IN  IF dots = {} THEN name
        ELSE SubSeq(name, (CHOOSE i \in dots : \A j \in dots : j <= i) + 1, Len(name))

\* The comma-separated tokens of an extension list
CommaTokens(list) ==
    {SubSeq(list, a, b) : <<a, b>> \in
        {p \in (1..Len(list)) \X (1..Len(list)) :
            /\ p[1] <= p[2]
            /\ \A i \in p[1]..p[2] : list[i] # 44
            /\ (p[1] = 1 \/ list[p[1] - 1] = 44)
            /\ (p[2] = Len(list) \/ list[p[2] + 1] = 44)}}

\* The extension list a node answers with: the registration override when one
\* was given, otherwise what the extension hook returns; none without both
ExtensionsOf(node) ==
    IF node.m_extension # NULLSTR THEN CommaTokens(Chars(node.m_extension))
    ELSE IF node.m_plugin.extension_proc \notin {NOPROC, NULLSTR}
    THEN CommaTokens(Chars(node.m_plugin.extension_proc))
    ELSE {}

\* C14: the detection by file name takes the part after the last '.' (the
\* whole name without one) and returns the lowest enabled id whose effective
\* format name, or a comma-separated token of whose effective extension list,
\* equals that part ignoring case, so that "photo.JPG" and "photo.jpg" give the
\* same id; it returns FIF_UNKNOWN when no enabled plugin matches.
C14_DetectByExtension ==
    (call.op = "GetFIFFromFilename" /\ Allocated /\ call.str # NULLSTR) =>
        LET extension == AfterLastDot(Chars(call.str))
            matching ==
                {k \in Ids :
                    /\ Registry[k].m_enabled
                    /\ \/ SameCodesIgnoringCase(Chars(FormatOf(Registry[k])), extension)
                       \/ \E token \in ExtensionsOf(Registry[k]) :
                             SameCodesIgnoringCase(token, extension)}
        IN  /\ ~crashed
            /\ call.ret = IF matching = {} THEN FIF_UNKNOWN ELSE Lowest(matching)


\* The module handles the nodes of the registry hold
Owned == IF Allocated THEN {Registry[k].m_instance : k \in Ids} \ {0} ELSE {}

\* C15: every external module loaded is released exactly once: at once when
\* its registration is rejected, through FreeImage_RegisterExternalPlugin as
\* through the search of the plugin directories by FreeImage_Initialise,
\* otherwise when the registry is destroyed; so while the process runs a module
\* is unreleased exactly while a registered node holds it, none is released
\* twice, and after a full teardown none is left unreleased.
C15_ModulesReleasedOnce ==
    ~crashed =>
        \A h \in DOMAIN libraries :
            libraries[h] = IF h \in Owned THEN 0 ELSE 1

-----------------------------------------------------------------------------
(* Vocabulary of the histogram properties *)

\* The last call was FreeImage_MakeHistogram; its result is in made, the
\* caller's storage after it in memory and outVal
HistogramMade == made.op = "MakeHistogram"

\* The caller supplied a buffer for channel k (1 red, real part or the single
\* channel; 2 green or imaginary part; 3 blue or magnitude; 4 brightness)
Requested(k) == made.hist[k] # NULLHIST

\* width x height of the bitmap
PixelCount == made.dib.width * made.dib.height

\* Entry i of the buffer of channel k, read at the buffer's stride
Bin(k, i) == memory[made.hist[k] + i * made.stride[k]]

RECURSIVE SumOfBinsBetween(_, _, _)
\* The sum of the entries from to upto of the buffer of channel k
SumOfBinsBetween(k, from, upto) ==
    IF from > upto THEN 0
    ELSE IF from = upto THEN Bin(k, from)
    ELSE LET mid == (from + upto) \div 2
         IN  SumOfBinsBetween(k, from, mid) + SumOfBinsBetween(k, mid + 1, upto)

\* The sum of the first n entries of the buffer of channel k
SumOfBins(k, n) == SumOfBinsBetween(k, 0, n - 1)

\* The channels the pixel encoding of a bitmap has: four for the colour
\* encodings, three for the complex ones, one for the others
SupportedChannels(dib) ==
    CASE dib.type = "FIT_BITMAP" -> IF dib.bpp = 8 THEN {1} ELSE 1..4
      [] dib.type \in {"FIT_RGBF", "FIT_RGBAF", "FIT_RGB16", "FIT_RGBA16", "FIT_RGB32",
                       "FIT_RGBA32"} -> 1..4
      [] dib.type \in {"FIT_COMPLEX", "FIT_COMPLEXF"} -> 1..3
      [] OTHER -> {1}

-----------------------------------------------------------------------------
(* C16 *)

\* C16 as the specification states it: after a successful FreeImage_MakeHistogram
\* the entries of every buffer the caller supplied add up to width x height
C16_MassInEveryBuffer ==
    (HistogramMade /\ made.ret) =>
        \A k \in 1..4 : Requested(k) => SumOfBins(k, made.binsNumber) = PixelCount

\* C16, amended: after a successful FreeImage_MakeHistogram the entries of every
\* buffer the caller supplied for a channel that the pixel encoding has add up
\* to width x height; a buffer for a channel the encoding lacks adds up to 0
C16_MassConserved ==
    (HistogramMade /\ made.ret) =>
        \A k \in 1..4 :
            Requested(k) =>
                SumOfBins(k, made.binsNumber) =
                    IF k \in SupportedChannels(made.dib) THEN PixelCount ELSE 0

\* Two pixels of an 8-bit grayscale bitmap counted in two bins of the red
\* buffer, two counters apart
C16_Witness ==
    /\ HistogramMade
    /\ made.ret
    /\ made.dib.type = "FIT_BITMAP"
    /\ made.dib.bpp = 8
    /\ PixelCount = 2
    /\ made.binsNumber = 2
    /\ Requested(1)
    /\ made.stride[1] = 2
    /\ Bin(1, 0) = 1
    /\ Bin(1, 1) = 1

\* The pixel encoding, bit depth and colour classification of a bitmap is one
\* that FreeImage_MakeHistogram has a case for
Recognised(dib) ==
    IF dib.type = "FIT_BITMAP"
    THEN \/ dib.bpp = 32 /\ dib.colorType \in {"FIC_RGBALPHA", "FIC_YUV"}
         \/ dib.bpp = 24 /\ dib.colorType \in {"FIC_RGB", "FIC_YUV"}
         \/ dib.bpp = 8 /\ dib.colorType = "FIC_MINISBLACK"
    ELSE dib.type \in {"FIT_RGBF", "FIT_RGBAF", "FIT_COMPLEX", "FIT_COMPLEXF", "FIT_DOUBLE",
                       "FIT_FLOAT", "FIT_RGBA32", "FIT_RGB32", "FIT_RGBA16", "FIT_RGB16",
                       "FIT_UINT32", "FIT_INT32", "FIT_UINT16", "FIT_INT16"}

\* The range of the encoding is found by a scan of the bitmap
Scanned(dib) == dib.type \in FloatingTypes

\* The caller's storage and its outMinVal / outMaxVal variables are as they
\* were before the call
NothingWritten ==
    /\ \A a \in DOMAIN memory : memory[a] = Stale
    /\ outVal.min = Unwritten
    /\ outVal.max = Unwritten

\* The arguments are ones that FreeImage_MakeHistogram rejects at once
Rejected ==
    \/ ~made.dib.has_pixels
    \/ made.binsNumber < 1
    \/ \E k \in 1..4 : Requested(k) /\ made.stride[k] <= 0

-----------------------------------------------------------------------------
(* C17 *)

\* C17: FreeImage_MakeHistogram fails and leaves every buffer and the outMinVal
\* / outMaxVal variables as they were when the bitmap has no pixels, when
\* binsNumber < 1 or when a non-null buffer comes with a stride that is not
\* positive; a stride that is not positive beside a null buffer is no error:
\* with nothing else wrong the call succeeds when all buffers are null or the
\* encoding is a recognised one of fixed range
C17_RejectedUntouched ==
    HistogramMade =>
        /\ Rejected => (~made.ret /\ NothingWritten)
        /\ ( /\ ~Rejected
             /\ \E k \in 1..4 : ~Requested(k) /\ made.stride[k] <= 0
             /\ \/ \A k \in 1..4 : ~Requested(k)
                \/ Recognised(made.dib) /\ ~Scanned(made.dib) )
           => made.ret

\* A stride of 0 with the green buffer, beside a red buffer of stride 1, on a
\* bitmap with pixels and outMinVal, outMaxVal given
C17_Witness ==
    /\ HistogramMade
    /\ made.dib.has_pixels
    /\ made.binsNumber = 2
    /\ Requested(1)
    /\ made.stride[1] = 1
    /\ Requested(2)
    /\ made.stride[2] = 0
    /\ made.outMinVal
    /\ made.outMaxVal
    /\ ~made.ret
    /\ NothingWritten

\* The counters of buffer k at its stride
SlotsOf(k) == Slots(made.hist[k], made.stride[k], made.binsNumber)

\* The arguments are accepted and a buffer is given
Counting == HistogramMade /\ ~Rejected /\ \E k \in 1..4 : Requested(k)

-----------------------------------------------------------------------------
(* C18 *)

\* C18: when FreeImage_MakeHistogram accepts its arguments and a buffer is
\* given, the counters at 0, stride, ..., (binsNumber - 1) * stride of every
\* given buffer are zeroed before the counting (they hold counts of at most
\* width * height, nothing of what they held before), no counter between or
\* beyond them is written, and when the call fails every one of them is zero
C18_ClearedAtStride ==
    Counting =>
        /\ \A k \in 1..4 : \A a \in SlotsOf(k) : memory[a] \in 0..PixelCount
        /\ \A a \in DOMAIN memory :
              a \notin UNION {SlotsOf(k) : k \in 1..4} => memory[a] = Stale
        /\ ~made.ret => \A k \in 1..4 : \A a \in SlotsOf(k) : memory[a] = 0

\* A red buffer of two counters at stride 2 on an 8-bit bitmap classified
\* as palette: the call fails, the two counters are zero, the one between is
\* as it was
C18_Witness ==
    /\ Counting
    /\ made.dib.type = "FIT_BITMAP"
    /\ made.dib.bpp = 8
    /\ made.dib.colorType = "FIC_PALETTE"
    /\ made.binsNumber = 2
    /\ Requested(1)
    /\ made.stride[1] = 2
    /\ ~made.ret
    /\ Bin(1, 0) = 0
    /\ Bin(1, 1) = 0
    /\ memory[made.hist[1] + 1] = Stale

-----------------------------------------------------------------------------
(* C19 *)

-----------------------------------------------------------------------------
(* C20 *)

\* The number of pixels of the bitmap whose single channel has the value i
PixelsOfValue(i) ==
    Cardinality({n \in 1..Len(made.dib.pixels) : made.dib.pixels[n] = <<U8(i)>>})

\* C20: for an 8-bit grayscale bitmap and binsNumber = 256 the histogram of
\* the single channel, in the first buffer, has in bin i the number of pixels
\* whose value is exactly i, for every i in 0..255 and whatever the pixels are
C20_ExactCounts ==
    ( /\ Counting
      /\ made.dib.type = "FIT_BITMAP"
      /\ made.dib.bpp = 8
      /\ made.dib.colorType = "FIC_MINISBLACK"
      /\ made.binsNumber = 256
      /\ Requested(1) )
    => /\ made.ret
       /\ \A i \in 0..255 : Bin(1, i) = PixelsOfValue(i)

\* Two pixels, of the values 1 and 255: one in bin 1, one in bin 255, none in
\* bins 0 and 128
C20_Witness ==
    /\ Counting
    /\ made.dib.type = "FIT_BITMAP"
    /\ made.dib.bpp = 8
    /\ made.dib.colorType = "FIC_MINISBLACK"
    /\ made.binsNumber = 256
    /\ Requested(1)
    /\ made.dib.pixels = <<(<<U8(1)>>), (<<U8(255)>>)>>
    /\ made.ret
    /\ Bin(1, 0) = 0
    /\ Bin(1, 1) = 1
    /\ Bin(1, 128) = 0
    /\ Bin(1, 255) = 1

-----------------------------------------------------------------------------
(* C21 *)

\* An index function has been applied
BinIndexMade == made.op = "BinIndex"

\* value * N in 64 bits, where it is exact for a value and an N below 2^32
ExactProduct(value, N) == Times(value, N, 8)

\* min(floor(value * N / 2^bits), N - 1), in 64 bits
ExactIndex(value, N, bits) ==
    StdMin(ShiftRight(ExactProduct(value, N), bits), ZeroExtend(LastBin(N), 8))

\* C21 as the specification states it: for an unsigned channel of 8, 16 or 32
\* bits and a bin count N other than 2^bits the index is
\* min(floor(v * N / 2^bits), N - 1), the product v * N does not wrap in the
\* type it is computed in, the index is at most N - 1 and does not decrease
\* with v
C21_UnsignedIndexExact ==
    ( /\ BinIndexMade
      /\ ~made.signed
      /\ ZeroExtend(made.binsNumber, 8) # OneShiftedLeft(made.bits) )
    => /\ ZeroExtend(made.index, 8) = ExactIndex(made.value, made.binsNumber, made.bits)
       /\ ZeroExtend(Times(made.value, made.binsNumber, WidthOfProduct(made.bits)), 8)
             = ExactProduct(made.value, made.binsNumber)
       /\ ~Less(LastBin(made.binsNumber), made.index)
       /\ ~Less(made.index_next, made.index)

-----------------------------------------------------------------------------
(* C22 *)

\* v - MIN of a signed value v, as an unsigned number: the bytes of v with the
\* sign bit turned
Offset(value) == [value EXCEPT ![Len(value)] = (@ + 128) % 256]

\* C22 as the specification states it: for a signed channel of 16 or 32 bits
\* and any bin count N >= 1 the index is that of v - MIN over the full range,
\* min(floor((v - MIN) * N / 2^bits), N - 1), the product does not wrap, the
\* least value of the type has index 0 and the index is at most N - 1
C22_SignedIndexExact ==
    (BinIndexMade /\ made.signed)
    => /\ ZeroExtend(made.index, 8)
             = ExactIndex(Offset(made.value), made.binsNumber, made.bits)
       /\ ZeroExtend(Times(Offset(made.value), made.binsNumber,
                           WidthOfProduct(made.bits)), 8)
             = ExactProduct(Offset(made.value), made.binsNumber)
       /\ made.value = numeric_limits_lowest(made.bits, TRUE)
             => made.index = ToBytes(0, 4)
       /\ ~Less(LastBin(made.binsNumber), made.index)

-----------------------------------------------------------------------------
(* C23 *)

\* HistogramFloat has been invoked
FloatMade == made.op = "HistogramFloat"

\* Every channel value of every pixel of the bitmap is v
ConstantAt(dib, v) ==
    \A n \in DOMAIN dib.pixels : \A c \in DOMAIN dib.pixels[n] : dib.pixels[n][c] = <<v>>

\* The values a channel of the bitmap takes
ValuesOf(dib) == {dib.pixels[n][c][1] : n \in DOMAIN dib.pixels, c \in 1..Len(dib.pixels[1])}

\* C23: on a float, double or complex bitmap with every channel value equal
\* to v (the range found is min = max = v) FreeImage_MakeHistogram succeeds
\* and every buffer given for a channel of the encoding has width * height in
\* bin 0 and zero in every other bin, and outMinVal and outMaxVal, where given,
\* receive v; HistogramFloat with min > max fails and counts nothing
C23_DegenerateRange ==
    /\ ( /\ Counting
         /\ Scanned(made.dib)
         /\ made.scan_ok )
       => \A v \in ValuesOf(made.dib) :
             ConstantAt(made.dib, v) =>
                /\ made.ret
                /\ \A k \in SupportedChannels(made.dib) :
                      Requested(k) =>
                         /\ Bin(k, 0) = PixelCount
                         /\ \A i \in 1..(made.binsNumber - 1) : Bin(k, i) = 0
                /\ made.outMinVal => outVal.min = <<v>>
                /\ made.outMaxVal => outVal.max = <<v>>
    /\ (FloatMade /\ made.minVal > made.maxVal)
       => /\ ~made.ret
          /\ \A a \in SlotsOf(1) : memory[a] = 0

\* A complex bitmap of two pixels, all parts 0, with buffers for the real
\* part, the imaginary part and the magnitude, two bins each at stride 2: both
\* pixels in bin 0 of each, outMinVal and outMaxVal both 0
C23_Witness ==
    /\ Counting
    /\ made.dib.type = "FIT_COMPLEX"
    /\ PixelCount = 2
    /\ ConstantAt(made.dib, 0)
    /\ made.binsNumber = 2
    /\ \A k \in 1..3 : Requested(k) /\ made.stride[k] = 2
    /\ made.ret
    /\ \A k \in 1..3 : Bin(k, 0) = 2 /\ Bin(k, 1) = 0
    /\ outVal.min = <<0>>
    /\ outVal.max = <<0>>

-----------------------------------------------------------------------------
(* C24 *)

\* The least and the greatest value of the channel type of an encoding of
\* fixed range, as bytes: 0 and 255 for the classic encodings, 0 and 65535 for
\* 16 bits unsigned, -32768 and 32767 for 16 bits signed, and so on
FixedRange(dib) ==
    CASE dib.type = "FIT_BITMAP" -> <<(<<0>>), (<<255>>)>>
      [] dib.type \in {"FIT_UINT16", "FIT_RGB16", "FIT_RGBA16"} ->
             <<(<<0, 0>>), (<<255, 255>>)>>
      [] dib.type = "FIT_INT16" -> <<(<<0, 128>>), (<<255, 127>>)>>
      [] dib.type \in {"FIT_UINT32", "FIT_RGB32", "FIT_RGBA32"} ->
             <<(<<0, 0, 0, 0>>), (<<255, 255, 255, 255>>)>>
      [] dib.type = "FIT_INT32" -> <<(<<0, 0, 0, 128>>), (<<255, 255, 255, 127>>)>>
      [] OTHER -> <<Unwritten, Unwritten>>

\* outMinVal and outMaxVal, where given, hold the limits of the channel type
LimitsWritten ==
    /\ outVal.min = IF made.outMinVal THEN FixedRange(made.dib)[1] ELSE Unwritten
    /\ outVal.max = IF made.outMaxVal THEN FixedRange(made.dib)[2] ELSE Unwritten

\* neither outMinVal nor outMaxVal is written
LimitsUnwritten == outVal.min = Unwritten /\ outVal.max = Unwritten

\* C24 as the specification states it: on a bitmap of fixed numeric range
\* every successful FreeImage_MakeHistogram, the one with all four buffers null
\* included, writes the limits of the channel type to the non-null outMinVal
\* and outMaxVal, and a failed one writes neither
C24_LimitsOnEverySuccess ==
    (HistogramMade /\ ~Scanned(made.dib))
    => IF made.ret THEN LimitsWritten ELSE LimitsUnwritten

\* C24: on a bitmap of fixed numeric range a successful FreeImage_MakeHistogram
\* with at least one buffer writes the limits of the channel type to the
\* non-null outMinVal and outMaxVal; a failed one, and the successful one with
\* all four buffers null, write neither
C24_LimitsWhenCounted ==
    (HistogramMade /\ ~Scanned(made.dib))
    => IF made.ret /\ \E k \in 1..4 : Requested(k)
       THEN LimitsWritten
       ELSE LimitsUnwritten

\* A 16-bit signed bitmap, a buffer, outMinVal and outMaxVal given: success
\* with -32768 and 32767 written
C24_Witness ==
    /\ HistogramMade
    /\ made.dib.type = "FIT_INT16"
    /\ Requested(1)
    /\ made.outMinVal
    /\ made.outMaxVal
    /\ made.ret
    /\ outVal.min = <<0, 128>>
    /\ outVal.max = <<255, 127>>

-----------------------------------------------------------------------------
(* Vocabulary of the curve properties *)

TableMade == made.op = "GetAdjustColorsLookupTable"
Identity == [i \in 0..255 |-> i]

\* The adjustments the arguments of the last table ask for
AdjustmentsAsked ==
    (IF made.contrast # 0 THEN 1 ELSE 0) + (IF made.brightness # 0 THEN 1 ELSE 0)
    + (IF made.gamma[1] > 0 /\ made.gamma[1] # made.gamma[2] THEN 1 ELSE 0)
    + (IF made.invert THEN 1 ELSE 0)

-----------------------------------------------------------------------------
(* C25 *)

\* C25: FreeImage_GetAdjustColorsLookupTable returns the number of true
\* conditions among contrast != 0, brightness != 0, (gamma > 0 and gamma != 1)
\* and invert; with brightness 0, contrast 0, gamma 1.0 and no inversion it
\* fills the identity table and returns 0; and whenever it returns 0, a gamma
\* that is not positive with the rest neutral included, the table is the
\* identity.
C25_CounterAndIdentity ==
    TableMade =>
        /\ made.ret = AdjustmentsAsked
        /\ (made.brightness = 0 /\ made.contrast = 0 /\ made.gamma = <<1, 1>>
            /\ ~made.invert) => (LUT = Identity /\ made.ret = 0)
        /\ made.ret = 0 => LUT = Identity

\* a table was asked for with a gamma that is not positive and the rest
\* neutral: the counter is 0 and the table the identity
C25_Witness ==
    /\ TableMade
    /\ made.gamma[1] <= 0
    /\ made.ret = 0
    /\ LUT = Identity

-----------------------------------------------------------------------------
(* C26 *)

\* The byte i mapped through the table FreeImage_AdjustBrightness builds for 50
\* and then through the one FreeImage_AdjustContrast builds for 15, the ties of
\* the first falling below when first is set and those of the second when
\* second is
BrightnessThenContrast(first, second) ==
    LET brightness == BrightnessTable(50, IF first THEN 0..255 ELSE {})
        contrast == ContrastTable(15, IF second THEN 0..255 ELSE {})
    IN  [i \in 0..255 |-> contrast[brightness[i]]]

\* C26: the table FreeImage_GetAdjustColorsLookupTable fills for brightness 50,
\* contrast 15, gamma 1.0 and no inversion differs on at least one byte from
\* mapping the byte through the brightness 50 table and then through the
\* contrast 15 table, however the ties of those tables fall.
C26_CombinedDiffersFromSequential ==
    (TableMade /\ made.brightness = 50 /\ made.contrast = 15 /\ made.gamma = <<1, 1>>
     /\ ~made.invert) =>
        \E i \in 0..255 :
            \A first, second \in BOOLEAN :
                LUT[i] # BrightnessThenContrast(first, second)[i]

\* the combined table sends 100 to 144 (95.8 after the contrast, 143.7 after
\* the brightness), the two tables in sequence send it to 150 and on to 153
C26_Witness ==
    /\ TableMade
    /\ made.brightness = 50 /\ made.contrast = 15 /\ made.gamma = <<1, 1>> /\ ~made.invert
    /\ LUT[100] = 144
    /\ \A first, second \in BOOLEAN : BrightnessThenContrast(first, second)[100] = 153

-----------------------------------------------------------------------------
(* C27 *)

CurveMade == made.op = "AdjustCurve"

\* a bitmap or a table FreeImage_AdjustCurve is not for
Unsuitable ==
    \/ ~made.src.has_pixels
    \/ made.LUT = NULLLUT
    \/ made.src.type # "FIT_BITMAP"
    \/ made.src.bpp \notin {8, 24, 32}

\* The channels of a pixel a channel selector stands for
Selected ==
    CASE made.channel = "FICC_RGB" -> {"red", "green", "blue"}
      [] made.channel = "FICC_RED" -> {"red"}
      [] made.channel = "FICC_GREEN" -> {"green"}
      [] made.channel = "FICC_BLUE" -> {"blue"}
      [] made.channel = "FICC_ALPHA" -> {"alpha"}

\* C27: FreeImage_AdjustCurve fails, modifying nothing, for a bitmap without
\* pixels, a null table, an encoding other than the classic one or a depth
\* other than 8, 24 or 32 bits; on an 8-bit bitmap of colour type palette it
\* maps the red, green and blue of every palette entry through the table and
\* leaves the pixels untouched; on 24- and 32-bit bitmaps it rewrites the
\* selected channels of each pixel and no other (FICC_RGB leaves alpha, a
\* single channel leaves the other channels), and FICC_ALPHA changes pixels at
\* 32 bits only.
C27_CurveFrame ==
    CurveMade =>
        /\ Unsuitable => (~made.ret /\ image = made.src)
        /\ (~Unsuitable /\ made.src.bpp = 8 /\ made.src.colorType = "FIC_PALETTE") =>
              /\ image.pixels = made.src.pixels
              /\ DOMAIN image.palette = DOMAIN made.src.palette
              /\ \A n \in DOMAIN image.palette :
                    \A c \in {"red", "green", "blue"} :
                        image.palette[n][c] = made.LUT[made.src.palette[n][c]]
        /\ (~Unsuitable /\ made.src.bpp \in {24, 32} /\ made.channel # "FICC_BLACK") =>
              /\ DOMAIN image.pixels = DOMAIN made.src.pixels
              /\ \A n \in DOMAIN image.pixels :
                    \A c \in DOMAIN made.src.pixels[n] :
                        image.pixels[n][c] = IF c \in Selected
                                             THEN made.LUT[made.src.pixels[n][c]]
                                             ELSE made.src.pixels[n][c]
        /\ (~Unsuitable /\ made.src.bpp = 24 /\ made.channel = "FICC_ALPHA") =>
              image = made.src

\* a 32-bit bitmap went through the inversion with FICC_RGB: red, green and
\* blue are inverted, alpha is as it was
C27_Witness ==
    /\ CurveMade
    /\ made.ret
    /\ made.src.bpp = 32 /\ made.channel = "FICC_RGB"
    /\ made.LUT[0] = 255
    /\ image.pixels[1].red = 255 - made.src.pixels[1].red
    /\ image.pixels[1].alpha = made.src.pixels[1].alpha

-----------------------------------------------------------------------------
(* C28 *)

ColorsMade == made.op = "AdjustColors"

\* C28: FreeImage_AdjustColors returns TRUE for every bitmap of the classic
\* encoding with pixels and a depth of 8, 24 or 32 bits, whatever the
\* brightness, contrast, gamma and invert arguments, the neutral ones and a
\* gamma that is not positive with the rest neutral included.
C28_TrueWhenHandled ==
    (ColorsMade /\ made.src.has_pixels /\ made.src.type = "FIT_BITMAP"
     /\ made.src.bpp \in {8, 24, 32}) => made.ret

-----------------------------------------------------------------------------
(* C29 *)

\* C29: after any sequence of FreeImage_Initialise and FreeImage_DeInitialise
\* calls, those with FreeImage_DeInitialise called at a reference counter of 0
\* included, the catalog exists if and only if the counter is greater than 0,
\* the counter is never negative, and every FreeImage_Initialise returns with a
\* constructed catalog.
C29_CatalogIffCounted ==
    /\ s_plugin_reference_count >= 0
    /\ ~s_plugins.null <=> s_plugin_reference_count > 0
    /\ call.op = "Initialise" => ~s_plugins.null

-----------------------------------------------------------------------------
(* C30 *)

\* C30: FreeImage_LoadFromHandle and FreeImage_SaveToHandle resolve the plugin
\* by its id without reading m_enabled: on a plugin disabled by
\* FreeImage_SetPluginEnabled(id, FALSE) they call the open hook (when
\* present), the operation and, the operation returning, the close hook (when
\* present), and return the operation's result, as on an enabled plugin; and
\* they leave m_enabled of every plugin as it was.
C30_DispatchIgnoresEnabled ==
    [][ (Calls("Load") \/ Calls("Save")) =>
          /\ s_plugins' = s_plugins
          /\ (ReachesOperation' /\ ~Registry[call'.fif].m_enabled) =>
                LET plugin == Registry[call'.fif].m_plugin
                    operation == IF call'.op = "Load" THEN "load_proc" ELSE "save_proc"
                    opens == IF plugin.open_proc THEN 1 ELSE 0
                    closes == IF plugin.close_proc /\ ~call'.raised THEN 1 ELSE 0
                    at == opens + 1
                    hooks == HooksMade'
                IN  /\ Len(hooks) = opens + 1 + closes
                    /\ plugin.open_proc => hooks[1].what = "open_proc"
                    /\ hooks[at].what = operation
                    /\ hooks[at].threw = call'.raised
                    /\ plugin.close_proc /\ ~call'.raised => hooks[at + 1].what = "close_proc"
                    /\ ~call'.raised => call'.ret = hooks[at].result
      ]_vars

\* a Save through a disabled plugin with session hooks ran open, save and
\* close and returned the save hook's TRUE
C30_Witness ==
    /\ call.op = "Save"
    /\ ReachesOperation
    /\ ~Registry[call.fif].m_enabled
    /\ call.ret = 1
    /\ Len(HooksMade) = 3
    /\ HooksMade[2].what = "save_proc"


====
